---- MODULE Spec2Model ----
(***************************************************************************)
(* Skaldi state-mirroring control plane: PlaybackState and its snapshots,  *)
(* delta computation, the Event Router, the Broadcaster with its           *)
(* subscribers, and the IPC transport (Exec / readLoop / Close).           *)
(***************************************************************************)
EXTENDS Integers, Sequences, FiniteSets, TLC

(* ------------------------------ bounds -------------------------------- *)
\* number of player events and metadata stores in one explored run
MaxEvents == 4
\* number of player events in one run of the fan-out specification
MaxFanEvents == 11
\* number of Exec calls in one run of the IPC specification
MaxReqs == 2
\* number of event lines in flight between the player and the router
MaxEventLines == 1
\* time positions and durations range over 0..MaxTime
MaxTime == 1
\* largest snapshot version drawn as an input of ComputeDelta
MaxDeltaVersion == 2
\* unexpected terminations of the player in one run of the supervisor
MaxCrashes == 1
\* player events in one run of the supervisor
MaxSupEvents == 1
\* longest playlist of the player in the command specification
MaxPlaylist == 5
\* lines of the player that readLoop has not scanned, in the burst
MaxWire == 2
\* moves and reports of the player in one run of the upload specification
MaxMediaEvents == 3
\* longest playlist the player builds on its own in that specification
MaxMediaPlaylist == 2
\* the clock runs over 1..MaxClock
MaxClock == 2
\* events and metadata stores in one run of the state specification
MaxStateEvents == 4
\* time positions and durations of that specification range over
\* 0..MaxStateTime
MaxStateTime == 2
\* commands of other requests applied while one PlayIndex call runs
MaxRaceCmds == 1
\* metadata stores and playlist replacements in one run of the pruning
\* specification
MaxPruneEvents == 4
\* ticks of the clock in one local day
TicksPerDay == 2

(* ------------------------- program constants -------------------------- *)
\* make(chan []byte, 10) in Broadcaster.AddClient
ClientQueueCap == 10
\* make(chan Snapshot, 100) in NewManager
StateUpdatesCap == 100
\* make(chan Event, 100) in NewIPCClient
EventsCap == 100
\* make(chan Entry, 100) in history.New
HistoryCap == 100
\* calls of Logger.Log in one run: enough to fill the history channel
MaxLogs == HistoryCap + 1

StatusIdle == "idle"
StatusPlaying == "playing"
StatusPaused == "paused"
PlaybackStatus == {StatusIdle, StatusPlaying, StatusPaused}

Filenames == {"a", "b"}
NoTitle == ""

(* ----------------------------- helpers -------------------------------- *)
Entry(f) == [Filename |-> f, Current |-> FALSE]

Track(t, d) == [Title |-> t, Duration |-> d]

\* QueueItem of state.go; HasMeta stands for the Metadata pointer being set
QueueItem(i, f, t, d, m) ==
    [Index |-> i, Filename |-> f, Title |-> t, Duration |-> d, HasMeta |-> m]

(* --------------------------- PlaybackState ---------------------------- *)
NewState ==
    [version |-> 0, idleActive |-> FALSE, paused |-> FALSE, timePos |-> 0,
     duration |-> 0, playlist |-> <<>>, playlistPos |-> -1,
     metadata |-> [f \in {} |-> Track(NoTitle, 0)]]

StoreMetadata(s, url, track) ==
    [s EXCEPT !.metadata = [f \in (DOMAIN s.metadata) \cup {url} |->
                               IF f = url THEN track ELSE s.metadata[f]],
              !.version = s.version + 1]

SetIdle(s, idle) ==
    [s EXCEPT !.idleActive = idle, !.version = s.version + 1]

SetPaused(s, p) ==
    IF s.paused # p
    THEN [s EXCEPT !.paused = p, !.version = s.version + 1]
    ELSE s

SetTimePos(s, t) == [s EXCEPT !.timePos = t]

SetDuration(s, d) ==
    LET s1 == [s EXCEPT !.duration = d]
    IN  IF s.playlistPos >= 0 /\ s.playlistPos < Len(s.playlist)
        THEN LET filename == s.playlist[s.playlistPos + 1].Filename
             IN  IF filename \in DOMAIN s.metadata
                 THEN [s1 EXCEPT !.metadata[filename].Duration = d]
                 ELSE s1
        ELSE s1

\* SetPlaylist with the version counted anew from each playlist
SetPlaylist_RestartVersion(s, entries) ==
    [s EXCEPT !.playlist = entries, !.version = 1]

SetPlaylist(s, entries) ==
    [s EXCEPT !.playlist = entries, !.version = s.version + 1]

SetPlaylistPos(s, pos) ==
    [s EXCEPT !.playlistPos = pos,
              !.version = IF pos # s.playlistPos THEN s.version + 1
                          ELSE s.version]

PlaylistFilenames(entries) == {entries[i].Filename : i \in 1..Len(entries)}

\* PruneMetadataBefore with a zero cutoff, the only call the router makes
PruneMetadata(s) ==
    [s EXCEPT !.metadata = [f \in (DOMAIN s.metadata) \cap
                                   PlaylistFilenames(s.playlist) |->
                               s.metadata[f]]]

StatusOf(s) ==
    IF s.idleActive THEN StatusIdle
    ELSE IF s.paused THEN StatusPaused
    ELSE StatusPlaying

\* currentIdx taken from playlistPos without the range test
CurrentIdxOf_Unchecked(s) == s.playlistPos

CurrentIdxOf(s) ==
    IF s.playlistPos >= 0 /\ s.playlistPos < Len(s.playlist)
    THEN s.playlistPos ELSE -1

ItemOf(s, i) ==
    LET f == s.playlist[i + 1].Filename
    IN  IF f \in DOMAIN s.metadata
        THEN QueueItem(i, f, s.metadata[f].Title, s.metadata[f].Duration, TRUE)
        ELSE QueueItem(i, f, NoTitle, 0, FALSE)

\* the Snapshot struct; NowPlaying is the empty sequence for a nil pointer
\* and a one-element sequence otherwise
MkSnapshot(v, status, t, d, queue, cur) ==
    [Version |-> v,
     Status |-> status,
     CurrentTime |-> t,
     Duration |-> d,
     Queue |-> queue,
     History |-> SelectSeq(queue, LAMBDA it : it.Index < cur),
     Upcoming |-> SelectSeq(queue, LAMBDA it : it.Index > cur),
     CurrentIdx |-> cur,
     NowPlaying |-> SelectSeq(queue, LAMBDA it : it.Index = cur)]

Snapshot(s) ==
    MkSnapshot(s.version, StatusOf(s), s.timePos, s.duration,
               [k \in 1..Len(s.playlist) |-> ItemOf(s, k - 1)],
               CurrentIdxOf(s))

\* the zero value player.Snapshot{}
ZeroSnapshot ==
    [Version |-> 0, Status |-> "", CurrentTime |-> 0, Duration |-> 0,
     Queue |-> <<>>, History |-> <<>>, Upcoming |-> <<>>, CurrentIdx |-> 0,
     NowPlaying |-> <<>>]

(* ------------------------------ deltas -------------------------------- *)
queueChanged(a, b) ==
    \/ Len(a) # Len(b)
    \/ \E i \in 1..Len(a) :
          \/ a[i].Filename # b[i].Filename
          \/ a[i].Title # b[i].Title
          \/ a[i].Duration # b[i].Duration

DeltaFields == {"current_time", "duration", "status", "current_index"}

\* a nil *Delta
NilDelta ==
    [nil |-> TRUE, Version |-> 0, has |-> {}, CurrentTime |-> 0,
     Duration |-> 0, Status |-> "", CurrentIdx |-> 0]

\* a Delta whose pointer fields named in has are set, the others nil
MkDelta(v, has, curr) ==
    [nil |-> FALSE, Version |-> v, has |-> has,
     CurrentTime |-> IF "current_time" \in has THEN curr.CurrentTime ELSE 0,
     Duration |-> IF "duration" \in has THEN curr.Duration ELSE 0,
     Status |-> IF "status" \in has THEN curr.Status ELSE "",
     CurrentIdx |-> IF "current_index" \in has THEN curr.CurrentIdx ELSE 0]

\* ComputeDelta with the status pointer left nil when the version differs
ComputeDelta_OmitStatus(prev, curr) ==
    IF prev.Version = 0 THEN NilDelta
    ELSE IF curr.Version # prev.Version
    THEN IF queueChanged(prev.Queue, curr.Queue) THEN NilDelta
         ELSE MkDelta(curr.Version, DeltaFields \ {"status"}, curr)
    ELSE IF curr.CurrentTime = prev.CurrentTime /\ curr.Duration = prev.Duration
    THEN NilDelta
    ELSE MkDelta(curr.Version,
                 (IF curr.CurrentTime # prev.CurrentTime
                  THEN {"current_time"} ELSE {}) \cup
                 (IF curr.Duration # prev.Duration
                  THEN {"duration"} ELSE {}),
                 curr)

\* ComputeDelta carrying only the fields that changed, whatever the version
ComputeDelta_OnlyChanged(prev, curr) ==
    IF prev.Version = 0 THEN NilDelta
    ELSE IF curr.Version # prev.Version /\ queueChanged(prev.Queue, curr.Queue)
    THEN NilDelta
    ELSE IF curr.Version = prev.Version
            /\ curr.CurrentTime = prev.CurrentTime
            /\ curr.Duration = prev.Duration
    THEN NilDelta
    ELSE MkDelta(curr.Version,
                 (IF curr.CurrentTime # prev.CurrentTime
                  THEN {"current_time"} ELSE {}) \cup
                 (IF curr.Duration # prev.Duration
                  THEN {"duration"} ELSE {}) \cup
                 (IF curr.Status # prev.Status
                  THEN {"status"} ELSE {}) \cup
                 (IF curr.CurrentIdx # prev.CurrentIdx
                  THEN {"current_index"} ELSE {}),
                 curr)

ComputeDelta(prev, curr) ==
    IF prev.Version = 0 THEN NilDelta
    ELSE IF curr.Version # prev.Version
    THEN IF queueChanged(prev.Queue, curr.Queue) THEN NilDelta
         ELSE MkDelta(curr.Version, DeltaFields, curr)
    ELSE IF curr.CurrentTime = prev.CurrentTime /\ curr.Duration = prev.Duration
    THEN NilDelta
    ELSE MkDelta(curr.Version,
                 (IF curr.CurrentTime # prev.CurrentTime
                  THEN {"current_time"} ELSE {}) \cup
                 (IF curr.Duration # prev.Duration
                  THEN {"duration"} ELSE {}),
                 curr)

(* ----------------------------- variables ------------------------------ *)
VARIABLES
    state,      \* Manager.State, the PlaybackState
    updates,    \* Manager.StateUpdates, the buffered update channel
    subs,       \* one record per /events request: handler position, client
                \* entry of the Broadcaster (ch, lastSnap) and the state the
                \* remote client has reconstructed from what it was sent
    nEvents,    \* player events and metadata stores so far
    dPrev, dCurr, dOut, dDone,  \* inputs and result of one ComputeDelta call
    conn,       \* IPCClient.conn: "nil", "open", "closed" by Close, or
                \* "dead" when the player side is gone
    quit,       \* IPCClient.quit: "open" or "closed"
    nextReqID,  \* IPCClient.nextReqID
    pending,    \* IPCClient.pending: request id -> buffer of its reply channel
    ipcEvents,  \* IPCClient.Events, the buffered event channel
    readers,    \* running readLoop goroutines (the WaitGroup counter)
    wire,       \* lines the player has written that readLoop has not scanned
    requests,   \* request ids written to the socket and not yet answered
    calls,      \* one record per goroutine calling Exec
    closers,    \* one record per call of Close
    held,       \* the line readLoop has scanned and not yet routed
    stopping,   \* Manager.stopping
    ctxDone,    \* the supervision context is cancelled
    runPc,      \* position of Manager.Run
    proc,       \* the player process: "none", "running" or "exited"
    processState,  \* m.cmd.ProcessState: "nil" until cmd.Wait has returned
    sock,       \* the socket file exists
    updatesClosed, \* Manager.StateUpdates has been closed
    observedStop,  \* a stopping.Load() of Manager.Run has returned true
    spawns,     \* successful cmd.Start calls so far
    crashes,    \* terminations of the player process so far
    routerPc,   \* the goroutine of StartEventLoop
    obsTodo,    \* goroutines of RegisterObservers that have not run yet
    observed,   \* observe_property requests written on this connection
    stops,      \* one record per call of Manager.Stop
    plist,      \* the player's playlist
    ppos,       \* the player's playlist-pos, -1 when nothing is current
    http,       \* the HTTP request being served and its response
    issued,     \* IPC commands the command surface has issued
    resolverCalls, \* calls of resolver.Resolve
    tempFiles,  \* Manager.tempFiles, the Temp-File Registry
    tempDisk,   \* the temporary files that exist in the temp directory
    metaAddedAt,   \* State.metaAddedAt
    clock,      \* time.Now() in ticks; the grace period of metadata pruning
                \* is one tick, a day is TicksPerDay ticks
    upl,        \* the upload request being served: the handler's position,
                \* whether it has created its file, the time of its
                \* StoreMetadata, whether its loadfile succeeded, its response
    appeared,   \* filenames that an applied playlist event has contained
    applied,    \* the event the Event Router handled last, NoEvent once
                \* another task has written the state since
    histEntries,   \* Logger.entries, the buffered history channel
    histDate,   \* Logger.file and Logger.date: <<>> while the file is nil,
                \* <<d>> once the file of date d is open
    histFiles,  \* the daily history files: date -> lines written
    histAccepted,  \* entries that Log has put on the channel, in order
    histClosed, \* Logger.entries has been closed
    histPc,     \* positions of Logger.run and of the call of Logger.Close
    snaps,      \* the last two results of State.Snapshot(), oldest first
    setters,    \* the setter calls the running event handler has yet to make
    pruneCall   \* <<>>, or the cutoff of the last PruneMetadataBefore call and
                \* the keys it deleted

routerVars == <<state, updates, subs, nEvents>>
deltaVars == <<dPrev, dCurr, dOut, dDone>>
ipcVars == <<conn, quit, nextReqID, pending, ipcEvents, readers, wire,
             requests, calls, closers, held>>
supVars == <<stopping, ctxDone, runPc, proc, processState, sock,
             updatesClosed, observedStop, spawns, crashes, routerPc,
             obsTodo, observed, stops>>
cmdVars == <<plist, ppos, http, issued, resolverCalls>>
mediaVars == <<tempFiles, tempDisk, metaAddedAt, clock, upl, appeared,
               applied, histEntries, histDate, histFiles, histAccepted,
               histClosed, histPc, snaps, setters, pruneCall>>
vars == <<state, updates, subs, nEvents, dPrev, dCurr, dOut, dDone,
          conn, quit, nextReqID, pending, ipcEvents, readers, wire,
          requests, calls, closers, held, stopping, ctxDone, runPc, proc,
          processState, sock, updatesClosed, observedStop, spawns, crashes,
          routerPc, obsTodo, observed, stops, plist, ppos, http, issued,
          resolverCalls, tempFiles, tempDisk, metaAddedAt, clock, upl,
          appeared, applied, histEntries, histDate, histFiles, histAccepted,
          histClosed, histPc, snaps, setters, pruneCall>>

(* --------------------------- Event Router ----------------------------- *)
PlaylistInputs ==
    {<<>>, <<Entry("a")>>, <<Entry("a"), Entry("b")>>}

TrackInputs == {Track("t", d) : d \in 0..MaxTime}

\* a property-change event; Data is carried in the field of its JSON type:
\* Bool, Num (a float64), Entries (an array), or IsNull for a JSON null
Ev(name, b, n, es, isNull) ==
    [Name |-> name, Bool |-> b, Num |-> n, Entries |-> es, IsNull |-> isNull]

\* the property-change events the player emits in the explored runs
PropertyEvents ==
    {Ev(n, b, 0, <<>>, FALSE) : n \in {"idle-active", "pause"}, b \in BOOLEAN}
    \cup {Ev(n, FALSE, x, <<>>, FALSE) :
             n \in {"time-pos", "duration"}, x \in 0..MaxTime}
    \cup {Ev("playlist", FALSE, 0, es, FALSE) : es \in PlaylistInputs}
    \cup {Ev("playlist-pos", FALSE, x, <<>>, FALSE) : x \in -1..1}
    \cup {Ev("playlist-pos", FALSE, 0, <<>>, TRUE)}

\* the version-bumping event of the runs that fill queues
FanEvents == {Ev("idle-active", TRUE, 0, <<>>, FALSE)}

Result(s, b) == [state |-> s, shouldBroadcast |-> b]

handleIdleActive(s, val) ==
    LET s1 == SetIdle(s, val)
    IN  Result(IF val THEN SetDuration(SetTimePos(s1, 0), 0) ELSE s1, TRUE)

handlePause(s, val) == Result(SetPaused(s, val), TRUE)

handleTimePos(s, val) == Result(SetTimePos(s, val), TRUE)

handleDuration(s, val) == Result(SetDuration(s, val), TRUE)

handlePlaylist(s, entries) ==
    Result(PruneMetadata(SetPlaylist(s, entries)), TRUE)

handlePlaylistPos(s, val, isNull) ==
    IF isNull THEN Result(SetPlaylistPos(s, -1), TRUE)
    ELSE Result(SetPlaylistPos(s, val), TRUE)

handleEvent(s, e) ==
    CASE e.Name = "idle-active" -> handleIdleActive(s, e.Bool)
      [] e.Name = "pause" -> handlePause(s, e.Bool)
      [] e.Name = "time-pos" -> handleTimePos(s, e.Num)
      [] e.Name = "duration" -> handleDuration(s, e.Num)
      [] e.Name = "playlist" -> handlePlaylist(s, e.Entries)
      [] e.Name = "playlist-pos" -> handlePlaylistPos(s, e.Num, e.IsNull)

\* the non-blocking send on StateUpdates that ends handleEvent
TrySendUpdate(ch, snap) ==
    IF Len(ch) < StateUpdatesCap THEN Append(ch, snap) ELSE ch

\* one iteration of StartEventLoop's loop: an event drawn from evs is
\* handled, in runs of at most max events
RouterStep(evs, max) ==
    \E e \in evs :
       LET r == handleEvent(state, e)
       IN  /\ nEvents < max
           /\ nEvents' = nEvents + 1
           /\ state' = r.state
           /\ updates' = IF r.shouldBroadcast
                         THEN TrySendUpdate(updates, Snapshot(r.state))
                         ELSE updates
           /\ UNCHANGED <<subs, deltaVars, ipcVars, supVars, cmdVars, mediaVars>>

\* Server.handleQueue / handleUpload: metadata is stored before loadfile
HandleQueue ==
    \E url \in Filenames, track \in TrackInputs :
       /\ nEvents < MaxEvents
       /\ nEvents' = nEvents + 1
       /\ state' = StoreMetadata(state, url, track)
       /\ UNCHANGED <<updates, subs, deltaVars, ipcVars, supVars, cmdVars, mediaVars>>

(* ---------------------------- Broadcaster ----------------------------- *)
Subs == DOMAIN subs

\* an SSE frame: the JSON of a full snapshot or of a delta (nil pointer
\* fields are omitted by omitempty, which the has set records)
FullMsg(snap) == [full |-> TRUE, snap |-> snap, delta |-> NilDelta]
DeltaMsg(d) == [full |-> FALSE, snap |-> ZeroSnapshot, delta |-> d]

\* the payload Broadcaster.Run builds for one client
Payload(lastSnap, snap) ==
    LET delta == ComputeDelta(lastSnap, snap)
    IN  IF ~delta.nil THEN DeltaMsg(delta) ELSE FullMsg(snap)

\* SendToClient recording the snapshot as delivered although it was dropped
SendToClient_AlwaysRecord(c, snap) ==
    IF Len(c.ch) < ClientQueueCap
    THEN [c EXCEPT !.ch = Append(c.ch, Payload(c.lastSnap, snap)),
                   !.lastSnap = snap]
    ELSE [c EXCEPT !.lastSnap = snap]

\* the non-blocking send to one client and the update of its lastSnap; a
\* send on a closed queue panics
SendToClient(c, snap) ==
    IF c.closes > 0 THEN [c EXCEPT !.sentClosed = TRUE]
    ELSE IF Len(c.ch) < ClientQueueCap
    THEN [c EXCEPT !.ch = Append(c.ch, Payload(c.lastSnap, snap)),
                   !.lastSnap = snap]
    ELSE c

\* a subscriber: inRegistry says its client is in Broadcaster.clients, closes
\* counts the close calls on its queue, sentClosed records a send on the
\* closed queue
NewSub ==
    [pc |-> "new", initialSnap |-> ZeroSnapshot, ch |-> <<>>,
     lastSnap |-> ZeroSnapshot, view |-> ZeroSnapshot, inRegistry |-> FALSE,
     closes |-> 0, sentClosed |-> FALSE]

\* RemoveClient closing the queue of the client it found without deleting it
Unregister_CloseOnly(c) == [c EXCEPT !.closes = c.closes + 1]

\* the body of RemoveClient's loop for the client it found
Unregister(c) == [c EXCEPT !.inRegistry = FALSE, !.closes = c.closes + 1]

Registered(c) == subs[c].pc = "registered"

\* one iteration of the range loop of Broadcaster.Run, under clientsMu
BroadcasterRun ==
    /\ updates # <<>>
    /\ LET snap == Head(updates)
       IN  /\ updates' = Tail(updates)
           /\ subs' = [c \in Subs |->
                          IF subs[c].inRegistry
                          THEN SendToClient(subs[c], snap)
                          ELSE subs[c]]
    /\ UNCHANGED <<state, nEvents, deltaVars, ipcVars, supVars, cmdVars, mediaVars>>

\* what the remote client does with a frame: a full snapshot replaces its
\* state, a delta overwrites the fields it carries
ApplyDelta(view, d) ==
    IF d.nil THEN view
    ELSE [view EXCEPT
            !.Version = d.Version,
            !.CurrentTime = IF "current_time" \in d.has
                            THEN d.CurrentTime ELSE @,
            !.Duration = IF "duration" \in d.has THEN d.Duration ELSE @,
            !.Status = IF "status" \in d.has THEN d.Status ELSE @,
            !.CurrentIdx = IF "current_index" \in d.has
                           THEN d.CurrentIdx ELSE @]

ApplyMessage(view, msg) ==
    IF msg.full THEN msg.snap ELSE ApplyDelta(view, msg.delta)

\* Server.handleEvents up to the flush of the initial snapshot
HandleEventsInitial(c) ==
    /\ subs[c].pc = "new"
    /\ LET initialSnap == Snapshot(state)
       IN  subs' = [subs EXCEPT ![c].pc = "flushed",
                                ![c].initialSnap = initialSnap,
                                ![c].view = initialSnap]
    /\ UNCHANGED <<state, updates, nEvents, deltaVars, ipcVars, supVars, cmdVars, mediaVars>>

\* Broadcaster.AddClient(initialSnap)
AddClient(c) ==
    /\ subs[c].pc = "flushed"
    /\ subs' = [subs EXCEPT ![c].pc = "registered",
                            ![c].inRegistry = TRUE,
                            ![c].ch = <<>>,
                            ![c].lastSnap = subs[c].initialSnap,
                            ![c].initialSnap = ZeroSnapshot]
    /\ UNCHANGED <<state, updates, nEvents, deltaVars, ipcVars, supVars, cmdVars, mediaVars>>

\* the msg := <-clientCh case of the handler's loop
HandleEventsWrite(c) ==
    /\ Registered(c)
    /\ subs[c].ch # <<>>
    /\ subs' = [subs EXCEPT ![c].ch = Tail(subs[c].ch),
                            ![c].view = ApplyMessage(subs[c].view,
                                                     Head(subs[c].ch))]
    /\ UNCHANGED <<state, updates, nEvents, deltaVars, ipcVars, supVars, cmdVars, mediaVars>>

\* the <-notify case: the handler returns and RemoveClient runs
RemoveClient(c) ==
    /\ Registered(c)
    /\ subs' = [subs EXCEPT ![c] =
                   LET r == [NewSub EXCEPT !.pc = "removed",
                                           !.inRegistry = subs[c].inRegistry,
                                           !.closes = subs[c].closes,
                                           !.sentClosed = subs[c].sentClosed]
                   IN  IF r.inRegistry THEN Unregister(r) ELSE r]
    /\ UNCHANGED <<state, updates, nEvents, deltaVars, ipcVars, supVars, cmdVars, mediaVars>>

(* --------------------------- IPC transport ---------------------------- *)
Callers == {"g1", "g2"}
Closers == {"k1", "k2"}

\* a reply line of the player; Data stands for the value of that request
DataFor(id) == id

ReplyLine(id, err) ==
    [isEvent |-> FALSE, RequestID |-> id, Error |-> err, Data |-> DataFor(id)]

EventLine ==
    [isEvent |-> TRUE, RequestID |-> 0, Error |-> "", Data |-> 0]

Response(msg) ==
    [RequestID |-> msg.RequestID, Error |-> msg.Error, Data |-> msg.Data]

NoResponse == [RequestID |-> 0, Error |-> "", Data |-> 0]

ReplyErrors == {"success", "", "error running command"}

\* what Exec returns: kind "data" with the reply's data, or an error
ExecResult(kind, data) == [kind |-> kind, Data |-> data]

NewCall == [pc |-> "idle", id |-> 0, resp |-> NoResponse,
            result |-> ExecResult("none", 0)]

\* c.pending[reqID] = respChan, a channel with a buffer of one
AddPending(pend, id) ==
    [i \in (DOMAIN pend) \cup {id} |-> IF i = id THEN <<>> ELSE pend[i]]

\* the deferred delete(c.pending, reqID), which the mutant leaves out
DeletePending_Leak(pend, id) == pend

\* the deferred delete(c.pending, reqID)
DeletePending(pend, id) == [i \in (DOMAIN pend) \ {id} |-> pend[i]]

\* NewIPCClient
InitIPC ==
    /\ conn = "nil"
    /\ quit = "open"
    /\ nextReqID = 0
    /\ pending = [i \in {} |-> <<>>]
    /\ ipcEvents = <<>>
    /\ readers = 0
    /\ wire = <<>>
    /\ requests = {}
    /\ calls = [p \in Callers |-> NewCall]
    /\ closers = [k \in Closers |-> "idle"]
    /\ held = <<>>

\* IPCClient.Connect, the dial succeeding
Connect ==
    /\ conn = "nil"
    /\ conn' = "open"
    /\ readers' = readers + 1
    /\ UNCHANGED <<quit, nextReqID, pending, ipcEvents, wire, requests, calls,
                   closers, held, routerVars, deltaVars,
                   supVars, cmdVars, mediaVars>>

\* Exec up to the registration of the reply channel
ExecBegin(p) ==
    /\ calls[p].pc \in {"idle", "done"}
    /\ nextReqID < MaxReqs
    /\ nextReqID' = nextReqID + 1
    /\ pending' = AddPending(pending, nextReqID + 1)
    /\ calls' = [calls EXCEPT ![p] = [NewCall EXCEPT !.pc = "registered",
                                                     !.id = nextReqID + 1]]
    /\ UNCHANGED <<conn, quit, ipcEvents, readers, wire, requests, closers,
                   held, routerVars, deltaVars,
                   supVars, cmdVars, mediaVars>>

\* c.conn.Write(data): a nil conn panics, a closed one fails the call; in
\* both cases the deferred delete runs
ExecWrite(p) ==
    /\ calls[p].pc = "registered"
    /\ IF conn = "open"
       THEN /\ requests' = requests \cup {calls[p].id}
            /\ calls' = [calls EXCEPT ![p].pc = "waiting"]
            /\ UNCHANGED pending
       ELSE /\ pending' = DeletePending(pending, calls[p].id)
            /\ calls' = [calls EXCEPT
                  ![p].pc = IF conn = "nil" THEN "panicked" ELSE "done",
                  ![p].result = IF conn = "nil" THEN ExecResult("none", 0)
                                ELSE ExecResult("write-failed", 0)]
            /\ UNCHANGED requests
    /\ UNCHANGED <<conn, quit, nextReqID, ipcEvents, readers, wire, closers,
                   held, routerVars, deltaVars,
                   supVars, cmdVars, mediaVars>>

\* the resp := <-respChan case of Exec's select
ExecReceive(p) ==
    /\ calls[p].pc = "waiting"
    /\ pending[calls[p].id] # <<>>
    /\ LET resp == Head(pending[calls[p].id])
       IN  calls' = [calls EXCEPT
              ![p].pc = "done",
              ![p].resp = resp,
              ![p].result = IF resp.Error # "success" /\ resp.Error # ""
                            THEN ExecResult("remote-error", 0)
                            ELSE ExecResult("data", resp.Data)]
    /\ pending' = DeletePending(pending, calls[p].id)
    /\ UNCHANGED <<conn, quit, nextReqID, ipcEvents, readers, wire, requests,
                   closers, held, routerVars, deltaVars,
                   supVars, cmdVars, mediaVars>>

\* the <-time.After(5 * time.Second) case of Exec's select
ExecTimeout(p) ==
    /\ calls[p].pc = "waiting"
    /\ calls' = [calls EXCEPT ![p].pc = "done",
                              ![p].result = ExecResult("timeout", 0)]
    /\ pending' = DeletePending(pending, calls[p].id)
    /\ UNCHANGED <<conn, quit, nextReqID, ipcEvents, readers, wire, requests,
                   closers, held, routerVars, deltaVars,
                   supVars, cmdVars, mediaVars>>

\* the player answers one request it has read
PlayerReply ==
    \E id \in requests, err \in ReplyErrors :
       /\ conn = "open"
       /\ requests' = requests \ {id}
       /\ wire' = Append(wire, ReplyLine(id, err))
       /\ UNCHANGED <<conn, quit, nextReqID, pending, ipcEvents, readers,
                      calls, closers, held, routerVars, deltaVars,
                   supVars, cmdVars, mediaVars>>

\* event lines between the player and the Event Router
InFlightEvents == Len(wire) + Len(held) + Len(ipcEvents)

\* the player emits a property-change event, at most max of them in flight
EmitEvent(max) ==
    /\ conn = "open"
    /\ InFlightEvents < max
    /\ wire' = Append(wire, EventLine)
    /\ UNCHANGED <<conn, quit, nextReqID, pending, ipcEvents, readers,
                   requests, calls, closers, held, routerVars, deltaVars,
                   supVars, cmdVars, mediaVars>>

PlayerEvent == EmitEvent(MaxEventLines)

\* scanner.Scan() returns the next line
ReadLoopScan ==
    /\ readers > 0
    /\ held = <<>>
    /\ wire # <<>>
    /\ held' = <<Head(wire)>>
    /\ wire' = Tail(wire)
    /\ UNCHANGED <<conn, quit, nextReqID, pending, ipcEvents, readers,
                   requests, calls, closers, routerVars, deltaVars,
                   supVars, cmdVars, mediaVars>>

\* the body of readLoop's scan loop for the scanned line; both sends block
\* on a full channel
ReadLoop ==
    /\ readers > 0
    /\ held # <<>>
    /\ LET msg == Head(held)
       IN  IF msg.isEvent
           THEN /\ Len(ipcEvents) < EventsCap
                /\ ipcEvents' = Append(ipcEvents, msg)
                /\ UNCHANGED pending
           ELSE /\ IF msg.RequestID \in DOMAIN pending
                   THEN /\ Len(pending[msg.RequestID]) < 1
                        /\ pending' = [pending EXCEPT ![msg.RequestID] =
                                          Append(@, Response(msg))]
                   ELSE UNCHANGED pending
                /\ UNCHANGED ipcEvents
    /\ held' = <<>>
    /\ UNCHANGED <<conn, quit, nextReqID, readers, wire, requests, calls,
                   closers, routerVars, deltaVars, supVars, cmdVars, mediaVars>>

\* scanner.Scan() fails on the closed or broken connection and readLoop
\* returns; with two readers one of them reads a connection that Connect
\* has replaced
ReadLoopExit ==
    /\ readers > 0
    /\ held = <<>>
    /\ conn \in {"closed", "dead"} \/ readers > 1
    /\ readers' = readers - 1
    /\ UNCHANGED <<conn, quit, nextReqID, pending, ipcEvents, wire, requests,
                   calls, closers, held, routerVars, deltaVars, supVars,
                   cmdVars, mediaVars>>

\* the receive from m.ipc.Events in StartEventLoop
TakeEvent ==
    /\ ipcEvents # <<>>
    /\ ipcEvents' = Tail(ipcEvents)
    /\ UNCHANGED <<conn, quit, nextReqID, pending, readers, wire, requests,
                   calls, closers, held, routerVars, deltaVars,
                   supVars, cmdVars, mediaVars>>

\* Close up to c.wg.Wait(): close(c.quit) panics on a closed channel
CloseBegin(k) ==
    /\ closers[k] = "idle"
    /\ IF quit = "closed"
       THEN /\ closers' = [closers EXCEPT ![k] = "panicked"]
            /\ UNCHANGED <<quit, conn, mediaVars>>
       ELSE /\ quit' = "closed"
            /\ conn' = IF conn = "nil" THEN "nil" ELSE "closed"
            /\ closers' = [closers EXCEPT ![k] = "waiting"]
    /\ UNCHANGED <<nextReqID, pending, ipcEvents, readers, wire, requests,
                   calls, held, routerVars, deltaVars,
                   supVars, cmdVars, mediaVars>>

\* c.wg.Wait() returns and Close with it
CloseReturn(k) ==
    /\ closers[k] = "waiting"
    /\ readers = 0
    /\ closers' = [closers EXCEPT ![k] = "done"]
    /\ UNCHANGED <<conn, quit, nextReqID, pending, ipcEvents, readers, wire,
                   requests, calls, held, routerVars, deltaVars,
                   supVars, cmdVars, mediaVars>>

(* ------------------------- Player Supervisor -------------------------- *)
\* the properties RegisterObservers observes, in the order of its slice
Properties ==
    <<"idle-active", "pause", "time-pos", "duration", "volume", "mute",
      "playlist", "media-title", "playlist-pos">>

\* the goroutine of Exec("quit") and the Close call of one call of Stop
StopCaller(k) == IF k = "k1" THEN "g1" ELSE "g2"

\* NewManager
InitSup ==
    /\ stopping = FALSE
    /\ ctxDone = FALSE
    /\ runPc = "init"
    /\ proc = "none"
    /\ processState = "nil"
    /\ sock = FALSE
    /\ updatesClosed = FALSE
    /\ observedStop = FALSE
    /\ spawns = 0
    /\ crashes = 0
    /\ routerPc = "none"
    /\ obsTodo = 0
    /\ observed = {}
    /\ stops = [k \in Closers |-> "idle"]

\* Manager.Run up to its loop: StartEventLoop starts the Event Router
RunBegin ==
    /\ runPc = "init"
    /\ runPc' = "top"
    /\ routerPc' = "running"
    /\ UNCHANGED <<stopping, ctxDone, proc, processState, sock,
                   updatesClosed, observedStop, spawns, crashes, obsTodo,
                   observed, stops, routerVars, deltaVars, ipcVars, cmdVars, mediaVars>>

\* the two checks at the top of the loop of Run
RunTop ==
    /\ runPc = "top"
    /\ runPc' = IF ctxDone \/ stopping THEN "returned" ELSE "start"
    /\ observedStop' = (observedStop \/ (~ctxDone /\ stopping))
    /\ UNCHANGED <<stopping, ctxDone, proc, processState, sock,
                   updatesClosed, spawns, crashes, routerPc, obsTodo,
                   observed, stops, routerVars, deltaVars, ipcVars, cmdVars, mediaVars>>

\* Manager.start up to cmd.Start: the stale socket is removed and the
\* player is spawned; exec.CommandContext fails on a cancelled context
RunSpawn ==
    /\ runPc = "start"
    /\ sock' = FALSE
    /\ IF ctxDone
       THEN /\ runPc' = "failed"
            /\ UNCHANGED <<proc, processState, spawns, mediaVars>>
       ELSE /\ runPc' = "waitSocket"
            /\ proc' = "running"
            /\ processState' = "nil"
            /\ spawns' = spawns + 1
    /\ UNCHANGED <<stopping, ctxDone, updatesClosed, observedStop, crashes,
                   routerPc, obsTodo, observed, stops, routerVars, deltaVars,
                   ipcVars, cmdVars, mediaVars>>

\* one round of the select of waitForSocket, and start's Kill on an error
RunWaitSocket ==
    /\ runPc = "waitSocket"
    /\ ctxDone \/ sock \/ processState # "nil"
    /\ IF sock /\ ~ctxDone
       THEN /\ runPc' = "connect"
            /\ UNCHANGED <<proc, conn, mediaVars>>
       ELSE /\ runPc' = "failed"
            /\ proc' = "exited"
            /\ conn' = IF conn = "open" THEN "dead" ELSE conn
    /\ UNCHANGED <<stopping, ctxDone, processState, sock, updatesClosed,
                   observedStop, spawns, crashes, routerPc, obsTodo, observed,
                   stops, quit, nextReqID, pending, ipcEvents, readers, wire,
                   requests, calls, closers, held, routerVars, deltaVars,
                   cmdVars, mediaVars>>

\* m.ipc.Connect() and RegisterObservers in Manager.start: the dial
\* succeeds when the player listens
RunConnect ==
    /\ runPc = "connect"
    /\ IF proc = "running"
       THEN /\ conn' = "open"
            /\ readers' = readers + 1
            /\ wire' = <<>>
            /\ requests' = {}
            /\ obsTodo' = Len(Properties)
            /\ observed' = {}
            /\ runPc' = "waitProc"
       ELSE /\ runPc' = "failed"
            /\ UNCHANGED <<conn, readers, wire, requests, obsTodo, observed, mediaVars>>
    /\ UNCHANGED <<stopping, ctxDone, proc, processState, sock,
                   updatesClosed, observedStop, spawns, crashes, routerPc,
                   stops, quit, nextReqID, pending, ipcEvents, calls, closers,
                   held, routerVars, deltaVars, cmdVars, mediaVars>>

\* the goroutines of RegisterObservers, one Exec("observe_property", 0, p)
\* for each property, taken as one step; the replies are discarded
ObserveProperties ==
    /\ obsTodo > 0
    /\ obsTodo' = 0
    /\ observed' = IF conn = "open"
                   THEN {Properties[i] : i \in 1..Len(Properties)}
                   ELSE observed
    /\ UNCHANGED <<stopping, ctxDone, runPc, proc, processState, sock,
                   updatesClosed, observedStop, spawns, crashes, routerPc,
                   stops, routerVars, deltaVars, ipcVars, cmdVars, mediaVars>>

\* the error path of the loop of Run after a failed start
RunFailed ==
    /\ runPc = "failed"
    /\ runPc' = IF stopping \/ ctxDone THEN "returned" ELSE "top"
    /\ observedStop' = (observedStop \/ stopping)
    /\ UNCHANGED <<stopping, ctxDone, proc, processState, sock,
                   updatesClosed, spawns, crashes, routerPc, obsTodo,
                   observed, stops, routerVars, deltaVars, ipcVars, cmdVars, mediaVars>>

\* m.cmd.Wait() returns, then the stopping check and the back-off
RunWait ==
    /\ runPc = "waitProc"
    /\ proc = "exited"
    /\ processState' = "exited"
    /\ runPc' = IF stopping \/ ctxDone THEN "returned" ELSE "top"
    /\ observedStop' = (observedStop \/ stopping)
    /\ UNCHANGED <<stopping, ctxDone, proc, sock, updatesClosed, spawns,
                   crashes, routerPc, obsTodo, observed, stops, routerVars,
                   deltaVars, ipcVars, cmdVars, mediaVars>>

\* the player creates its socket file and listens
SocketAppears ==
    /\ proc = "running"
    /\ ~sock
    /\ sock' = TRUE
    /\ UNCHANGED <<stopping, ctxDone, runPc, proc, processState,
                   updatesClosed, observedStop, spawns, crashes, routerPc,
                   obsTodo, observed, stops, routerVars, deltaVars, ipcVars,
                   cmdVars, mediaVars>>

\* the player process terminates unexpectedly
ProcCrash ==
    /\ proc = "running"
    /\ crashes < MaxCrashes
    /\ crashes' = crashes + 1
    /\ proc' = "exited"
    /\ conn' = IF conn = "open" THEN "dead" ELSE conn
    /\ UNCHANGED <<stopping, ctxDone, runPc, processState, sock,
                   updatesClosed, observedStop, spawns, routerPc, obsTodo,
                   observed, stops, quit, nextReqID, pending, ipcEvents,
                   readers, wire, requests, calls, closers, held, routerVars,
                   deltaVars, cmdVars, mediaVars>>

\* the player reads a quit request, answers it or not, and exits
PlayerQuit ==
    \E id \in requests, answer \in BOOLEAN :
       /\ proc = "running"
       /\ conn = "open"
       /\ requests' = requests \ {id}
       /\ wire' = IF answer THEN Append(wire, ReplyLine(id, "success"))
                  ELSE wire
       /\ proc' = "exited"
       /\ conn' = "dead"
       /\ UNCHANGED <<stopping, ctxDone, runPc, processState, sock,
                      updatesClosed, observedStop, spawns, crashes, routerPc,
                      obsTodo, observed, stops, quit, nextReqID, pending,
                      ipcEvents, readers, calls, closers, held, routerVars,
                      deltaVars, cmdVars, mediaVars>>

\* the player emits a property-change event
SupPlayerEvent ==
    /\ proc = "running"
    /\ InFlightEvents + nEvents < MaxSupEvents
    /\ EmitEvent(MaxSupEvents)

\* cancel() of the supervision context; exec.CommandContext kills the
\* player
Cancel ==
    /\ ~ctxDone
    /\ ctxDone' = TRUE
    /\ proc' = IF proc = "running" THEN "exited" ELSE proc
    /\ conn' = IF proc = "running" /\ conn = "open" THEN "dead" ELSE conn
    /\ UNCHANGED <<stopping, runPc, processState, sock, updatesClosed,
                   observedStop, spawns, crashes, routerPc, obsTodo, observed,
                   stops, quit, nextReqID, pending, ipcEvents, readers, wire,
                   requests, calls, closers, held, routerVars, deltaVars,
                   cmdVars, mediaVars>>

\* one iteration of the loop of StartEventLoop taking an event: handleEvent
\* ends with a send on StateUpdates, which panics on a closed channel
RouterTake ==
    \E e \in FanEvents :
       LET r == handleEvent(state, e)
       IN  /\ routerPc = "running"
           /\ ipcEvents # <<>>
           /\ ipcEvents' = Tail(ipcEvents)
           /\ nEvents' = nEvents + 1
           /\ state' = r.state
           /\ IF r.shouldBroadcast /\ updatesClosed
              THEN /\ routerPc' = "panicked"
                   /\ UNCHANGED updates
              ELSE /\ updates' = IF r.shouldBroadcast
                                 THEN TrySendUpdate(updates,
                                                    Snapshot(r.state))
                                 ELSE updates
                   /\ UNCHANGED routerPc
           /\ UNCHANGED <<subs, stopping, ctxDone, runPc, proc,
                          processState, sock, updatesClosed, observedStop,
                          spawns, crashes, obsTodo, observed, stops, conn,
                          quit, nextReqID, pending, readers, wire, requests,
                          calls, closers, held, deltaVars, cmdVars, mediaVars>>

\* the <-ctx.Done() case of the loop of StartEventLoop
RouterReturn ==
    /\ routerPc = "running"
    /\ ctxDone
    /\ routerPc' = "returned"
    /\ UNCHANGED <<stopping, ctxDone, runPc, proc, processState, sock,
                   updatesClosed, observedStop, spawns, crashes, obsTodo,
                   observed, stops, routerVars, deltaVars, ipcVars, cmdVars, mediaVars>>

\* Manager.Stop up to Exec("quit"): the stopping flag is set
StopBegin(k) ==
    /\ stops[k] = "idle"
    /\ stops' = [stops EXCEPT ![k] = "called"]
    /\ stopping' = TRUE
    /\ UNCHANGED <<ctxDone, runPc, proc, processState, sock, updatesClosed,
                   observedStop, spawns, crashes, routerPc, obsTodo, observed,
                   routerVars, deltaVars, ipcVars, cmdVars, mediaVars>>

\* m.ipc.Exec("quit") of Stop
StopExecBegin(k) ==
    /\ stops[k] = "called"
    /\ calls[StopCaller(k)].pc = "idle"
    /\ ExecBegin(StopCaller(k))

\* m.ipc.Close() of Stop, after Exec has returned
StopCloseBegin(k) ==
    /\ stops[k] = "called"
    /\ calls[StopCaller(k)].pc = "done"
    /\ CloseBegin(k)

\* close(m.StateUpdates) of Stop, after Close has returned; closing the
\* closed channel panics
StopCloseUpdates(k) ==
    /\ stops[k] = "called"
    /\ closers[k] = "done"
    /\ IF updatesClosed
       THEN /\ stops' = [stops EXCEPT ![k] = "panicked"]
            /\ UNCHANGED updatesClosed
       ELSE /\ stops' = [stops EXCEPT ![k] = "done"]
            /\ updatesClosed' = TRUE
    /\ UNCHANGED <<stopping, ctxDone, runPc, proc, processState, sock,
                   observedStop, spawns, crashes, routerPc, obsTodo, observed,
                   routerVars, deltaVars, ipcVars, cmdVars, mediaVars>>

\* a call of Stop has panicked in Exec, in Close or in its own close
StopPanicked(k) ==
    \/ stops[k] = "panicked"
    \/ stops[k] = "called" /\ calls[StopCaller(k)].pc = "panicked"
    \/ stops[k] = "called" /\ closers[k] = "panicked"

(* -------------------------- Command Surface --------------------------- *)
\* an HTTP request: a JSON body (malformed, or with the fields it has) or
\* the {index} path value, a string of characters
Request(kind, malformed, fields, action, index, url, indexStr) ==
    [kind |-> kind, malformed |-> malformed, fields |-> fields,
     action |-> action, index |-> index, url |-> url, indexStr |-> indexStr]

NoRequest == Request("none", FALSE, {}, "", 0, "", <<>>)

ActionInputs == {"pause", "resume", "skip", "previous", "play", "stop"}

IndexStrings ==
    {<<>>, <<"a">>, <<"-">>, <<"-", "1">>, <<"0">>, <<"1">>, <<"1", "0">>,
     <<"1", "a">>, <<"+", "2">>}

PlaybackRequests ==
    {Request("playback", TRUE, {}, "", 0, "", <<>>)}
    \cup {Request("playback", FALSE, {"index"}, "", i, "", <<>>) :
             i \in 0..1}
    \cup {Request("playback", FALSE, {"action"}, a, 0, "", <<>>) :
             a \in ActionInputs}
    \cup {Request("playback", FALSE, {"action", "index"}, a, i, "", <<>>) :
             a \in {"play", "stop"}, i \in -1..MaxPlaylist}

QueueRequests ==
    {Request("queue", TRUE, {}, "", 0, "", <<>>),
     Request("queue", FALSE, {}, "", 0, "", <<>>),
     Request("queue", FALSE, {"url"}, "", 0, "", <<>>),
     Request("queue", FALSE, {"url"}, "", 0, "a", <<>>)}

RemoveRequests ==
    {Request("remove", FALSE, {}, "", 0, "", str) : str \in IndexStrings}

\* json.Decode into PlaybackRequest: an absent field keeps its zero value
PlaybackRequest(req) ==
    [Action |-> IF "action" \in req.fields THEN req.action ELSE "",
     Index |-> IF "index" \in req.fields THEN req.index ELSE 0]

\* json.Decode into QueueRequest
QueueRequest(req) == [URL |-> IF "url" \in req.fields THEN req.url ELSE ""]

Digits == {"0", "1", "2"}

DigitVal(c) == CASE c = "0" -> 0 [] c = "1" -> 1 [] c = "2" -> 2

RECURSIVE DigitsVal(_)
DigitsVal(str) ==
    IF str = <<>> THEN 0
    ELSE DigitsVal(SubSeq(str, 1, Len(str) - 1)) * 10 + DigitVal(str[Len(str)])

\* Atoi accepting every string, which the mutant uses
Atoi_Lenient(str) == [err |-> FALSE, val |-> 0]

\* strconv.Atoi: an optional sign followed by at least one decimal digit
Atoi(str) ==
    LET signed == str # <<>> /\ str[1] \in {"-", "+"}
        body == IF signed THEN Tail(str) ELSE str
    IN  IF body # <<>> /\ \A i \in 1..Len(body) : body[i] \in Digits
        THEN [err |-> FALSE,
              val |-> IF signed /\ str[1] = "-" THEN 0 - DigitsVal(body)
                      ELSE DigitsVal(body)]
        ELSE [err |-> TRUE, val |-> 0]

\* an IPC command as Exec receives it
Cmd(name, a, b) == [name |-> name, a |-> a, b |-> b]

\* the player's playlist after playlist-move(i, -1): entry i goes to the
\* tail
MoveToTail(pl, i) ==
    [j \in 1..Len(pl) |->
        IF j < i + 1 THEN pl[j]
        ELSE IF j < Len(pl) THEN pl[j + 1] ELSE pl[i + 1]]

\* the player's playlist after playlist-remove(i)
RemoveAt(pl, i) ==
    [j \in 1..(Len(pl) - 1) |-> IF j < i + 1 THEN pl[j] ELSE pl[j + 1]]

ValidIndex(pl, i) == i >= 0 /\ i < Len(pl)

\* what the player does with a command: its reply and its new playlist
\* and position
PlayerApply(pl, pos, c) ==
    LET res(ok, l, q) == [ok |-> ok, plist |-> l, ppos |-> q]
    IN  CASE c.name = "playlist-move" ->
                IF ValidIndex(pl, c.a)
                THEN res(TRUE, MoveToTail(pl, c.a),
                         IF pos = c.a THEN Len(pl) - 1
                         ELSE IF pos > c.a THEN pos - 1 ELSE pos)
                ELSE res(FALSE, pl, pos)
          [] c.name = "playlist-play-index" ->
                IF ValidIndex(pl, c.a) THEN res(TRUE, pl, c.a)
                ELSE res(FALSE, pl, pos)
          [] c.name = "playlist-remove" ->
                IF ValidIndex(pl, c.a)
                THEN res(TRUE, RemoveAt(pl, c.a),
                         IF pos = c.a
                         THEN (IF c.a < Len(pl) - 1 THEN pos ELSE -1)
                         ELSE IF pos > c.a THEN pos - 1 ELSE pos)
                ELSE res(FALSE, pl, pos)
          [] c.name = "playlist-next" ->
                IF ValidIndex(pl, pos + 1) THEN res(TRUE, pl, pos + 1)
                ELSE res(FALSE, pl, pos)
          [] c.name = "playlist-prev" ->
                IF ValidIndex(pl, pos - 1) THEN res(TRUE, pl, pos - 1)
                ELSE res(FALSE, pl, pos)
          [] c.name = "loadfile" ->
                res(TRUE, Append(pl, Len(pl) + 1),
                    IF pos < 0 THEN Len(pl) ELSE pos)
          [] OTHER -> res(TRUE, pl, pos)

\* the handler's position and response: status 0 while none is written
HttpIdle ==
    [pc |-> "idle", req |-> NoRequest, status |-> 0, target |-> 0,
     cur |-> 0, i |-> 0, p0 |-> <<>>, c0 |-> 0]

InitCmdIdle ==
    /\ plist = <<>>
    /\ ppos = -1
    /\ http = HttpIdle
    /\ issued = <<>>
    /\ resolverCalls = 0

\* the response is written and the handler returns
Respond(h, status) == [h EXCEPT !.pc = "done", !.status = status]

\* s.player.Exec(c) of a handler: the command is written, and the player
\* applies it and answers, or the call fails
ExecCmd(c, ok) ==
    /\ issued' = Append(issued, c)
    /\ LET r == PlayerApply(plist, ppos, c)
       IN  /\ plist' = IF ok THEN r.plist ELSE plist
           /\ ppos' = IF ok THEN r.ppos ELSE ppos

\* the outcome of Exec as the handler sees it
ExecOk(c, ok) == ok /\ PlayerApply(plist, ppos, c).ok

\* the command of an action other than play
ActionCmd(action) ==
    CASE action = "pause" -> Cmd("set_property pause", 1, 0)
      [] action = "resume" -> Cmd("set_property pause", 0, 0)
      [] action = "skip" -> Cmd("playlist-next", 0, 0)
      [] action = "previous" -> Cmd("playlist-prev", 0, 0)

\* Server.handlePlayback; the play action continues in PlayIndex
handlePlayback(req, ok) ==
    LET r == PlaybackRequest(req)
        h == [http EXCEPT !.req = req, !.p0 = plist, !.c0 = ppos]
    IN  /\ http.pc = "idle"
        /\ IF req.malformed
           THEN /\ http' = Respond(h, 400)
                /\ UNCHANGED <<plist, ppos, issued, mediaVars>>
           ELSE IF r.Action \in {"pause", "resume", "skip", "previous"}
           THEN /\ ExecCmd(ActionCmd(r.Action), ok)
                /\ http' = Respond(h, IF ExecOk(ActionCmd(r.Action), ok)
                                      THEN 200 ELSE 500)
           ELSE IF r.Action = "play"
           THEN /\ http' = [h EXCEPT !.pc = "getpos", !.target = r.Index]
                /\ UNCHANGED <<plist, ppos, issued, mediaVars>>
           ELSE /\ http' = Respond(h, 400)
                /\ UNCHANGED <<plist, ppos, issued, mediaVars>>
        /\ UNCHANGED <<resolverCalls, routerVars, deltaVars, ipcVars,
                       supVars, mediaVars>>

\* the test of PlayIndex with <= replaced by <, which the mutant uses
PlaysDirectly_Strict(currentIdx, targetIdx) ==
    currentIdx < 0 \/ targetIdx < currentIdx

\* the test of PlayIndex that selects the direct playlist-play-index
PlaysDirectly(currentIdx, targetIdx) ==
    currentIdx < 0 \/ targetIdx <= currentIdx

\* Manager.PlayIndex: Exec("get_property", "playlist-pos")
PlayIndexGetPos(ok) ==
    /\ http.pc = "getpos"
    /\ ExecCmd(Cmd("get_property playlist-pos", 0, 0), ok)
    /\ http' = IF ~ok THEN Respond(http, 500)
               ELSE [http EXCEPT
                       !.cur = ppos,
                       !.i = ppos + 1,
                       !.pc = IF PlaysDirectly(ppos, http.target)
                              THEN "play" ELSE "move"]
    /\ UNCHANGED <<resolverCalls, routerVars, deltaVars, ipcVars, supVars, mediaVars>>

\* one iteration of the loop of PlayIndex
PlayIndexMove(ok) ==
    LET c == Cmd("playlist-move", http.cur + 1, -1)
    IN  /\ http.pc = "move"
        /\ http.i < http.target
        /\ ExecCmd(c, ok)
        /\ http' = IF ExecOk(c, ok) THEN [http EXCEPT !.i = http.i + 1]
                   ELSE Respond(http, 500)
        /\ UNCHANGED <<resolverCalls, routerVars, deltaVars, ipcVars,
                       supVars, mediaVars>>

\* the final Exec("playlist-play-index", ...) of PlayIndex
PlayIndexPlay(ok) ==
    LET idx == IF http.pc = "play" THEN http.target ELSE http.cur + 1
        c == Cmd("playlist-play-index", idx, 0)
    IN  /\ http.pc = "play" \/ (http.pc = "move" /\ http.i >= http.target)
        /\ ExecCmd(c, ok)
        /\ http' = Respond(http, IF ExecOk(c, ok) THEN 200 ELSE 500)
        /\ UNCHANGED <<resolverCalls, routerVars, deltaVars, ipcVars,
                       supVars, mediaVars>>

\* the commands other requests send to the player while a play request is
\* being served: skip, remove and enqueue
RaceCmds(pl) ==
    {Cmd("playlist-next", 0, 0), Cmd("loadfile", 0, 0)}
    \cup {Cmd("playlist-remove", i, 0) : i \in 0..(Len(pl) - 1)}

\* the Exec of another request's handler (handlePlayback skip, handleRemove,
\* handleQueue), which the player applies between two Exec calls of the
\* PlayIndex in progress
OtherRequest ==
    /\ http.pc \in {"getpos", "move", "play"}
    /\ Cardinality({j \in 1..Len(issued) :
                       issued[j] \in RaceCmds(http.p0) \cup RaceCmds(plist)})
          < MaxRaceCmds
    /\ \E c \in RaceCmds(plist) : ExecCmd(c, TRUE)
    /\ UNCHANGED <<http, resolverCalls, routerVars, deltaVars, ipcVars,
                   supVars, mediaVars>>

\* the current track ends and the player goes on to the next entry, or to
\* no entry after the last one
TrackEnds ==
    /\ ppos >= 0
    /\ ppos' = IF ValidIndex(plist, ppos + 1) THEN ppos + 1 ELSE -1
    /\ UNCHANGED <<plist, http, issued, resolverCalls, routerVars, deltaVars,
                   ipcVars, supVars, mediaVars>>

\* Server.handleQueue for a request; the resolver fails or returns one
\* track
handleQueue(req, resolved, track, ok) ==
    LET r == QueueRequest(req)
        h == [http EXCEPT !.req = req, !.p0 = plist, !.c0 = ppos]
        c == Cmd("loadfile", 0, 0)
    IN  /\ http.pc = "idle"
        /\ IF req.malformed \/ r.URL = ""
           THEN /\ http' = Respond(h, 400)
                /\ UNCHANGED <<plist, ppos, issued, resolverCalls, state, mediaVars>>
           ELSE /\ resolverCalls' = resolverCalls + 1
                /\ IF ~resolved
                   THEN /\ http' = Respond(h, 500)
                        /\ UNCHANGED <<plist, ppos, issued, state, mediaVars>>
                   ELSE /\ state' = StoreMetadata(state, r.URL, track)
                        /\ ExecCmd(c, ok)
                        /\ http' = Respond(h, 202)
        /\ UNCHANGED <<updates, subs, nEvents, deltaVars, ipcVars, supVars, mediaVars>>

\* Server.handleRemove
handleRemove(req, ok) ==
    LET h == [http EXCEPT !.req = req, !.p0 = plist, !.c0 = ppos]
        n == Atoi(req.indexStr)
        c == Cmd("playlist-remove", n.val, 0)
    IN  /\ http.pc = "idle"
        /\ IF req.indexStr = <<>> \/ n.err
           THEN /\ http' = Respond(h, 400)
                /\ UNCHANGED <<plist, ppos, issued, mediaVars>>
           ELSE /\ ExecCmd(c, ok)
                /\ http' = Respond(h, IF ExecOk(c, ok) THEN 200 ELSE 500)
        /\ UNCHANGED <<resolverCalls, routerVars, deltaVars, ipcVars,
                       supVars, mediaVars>>

(* ---------- Temp-File Registry, uploads and metadata pruning ---------- *)
\* the zero time.Time{} that PruneMetadata passes as the cutoff
ZeroTime == 0

\* dstPath of the upload served in the explored runs
UploadPath == "u"

\* the Track handleUpload stores: Title is the file name of the form
UploadTrack == Track("t", 0)

RegisterTempFile(reg, path) == reg \cup {path}

\* checkTempFiles: the registry that is left and the paths it has unlinked
checkTempFiles(reg, entries) ==
    IF reg = {} THEN [tempFiles |-> reg, removed |-> {}]
    ELSE LET gone == reg \ PlaylistFilenames(entries)
         IN  [tempFiles |-> reg \ gone, removed |-> gone]

\* PruneMetadataBefore on the state and its metaAddedAt table
PruneMetadataBefore_IgnorePlaylist(s, addedAt, cutoff) ==
    LET gone == {key \in DOMAIN s.metadata :
                    cutoff = ZeroTime \/ addedAt[key] < cutoff}
    IN  [state |-> [s EXCEPT !.metadata =
                       [f \in (DOMAIN s.metadata) \ gone |-> s.metadata[f]]],
         metaAddedAt |-> [f \in (DOMAIN addedAt) \ gone |-> addedAt[f]]]

PruneMetadataBefore(s, addedAt, cutoff) ==
    LET gone == {key \in DOMAIN s.metadata :
                    /\ key \notin PlaylistFilenames(s.playlist)
                    /\ (cutoff = ZeroTime \/ addedAt[key] < cutoff)}
    IN  [state |-> [s EXCEPT !.metadata =
                       [f \in (DOMAIN s.metadata) \ gone |-> s.metadata[f]]],
         metaAddedAt |-> [f \in (DOMAIN addedAt) \ gone |-> addedAt[f]]]

\* the zero value of Event: nothing has been handled yet
NoEvent == Ev("", FALSE, 0, <<>>, FALSE)

\* history.Entry; the tracks of the explored runs carry no source URL
HistoryEntry(ts, title) == [Timestamp |-> ts, Title |-> title]

\* the entry handlePlaylistPos builds for position idx, <<>> when it
\* builds none
HistEntryFor(s, idx, now) ==
    IF idx >= 0 /\ idx < Len(s.playlist)
    THEN LET f == s.playlist[idx + 1].Filename
             title == IF f \in DOMAIN s.metadata THEN s.metadata[f].Title
                      ELSE f
         IN  IF title # "" THEN <<HistoryEntry(now, title)>> ELSE <<>>
    ELSE <<>>

\* Logger.Log: the non-blocking send on Logger.entries
Log(ch, e) == IF Len(ch) < HistoryCap THEN Append(ch, e) ELSE ch

\* handleUpload down to io.Copy: the form is invalid, os.Create fails,
\* io.Copy fails, or the file is saved
UploadSave(outcome) ==
    /\ upl.pc = "idle"
    /\ upl' = CASE outcome = "invalid" ->
                     [upl EXCEPT !.pc = "done", !.status = 400]
                [] outcome = "createFailed" ->
                     [upl EXCEPT !.pc = "done", !.status = 500]
                [] outcome = "copyFailed" ->
                     [upl EXCEPT !.pc = "done", !.status = 500,
                                 !.created = TRUE]
                [] outcome = "saved" ->
                     [upl EXCEPT !.pc = "saved", !.created = TRUE]
    /\ tempDisk' = IF outcome \in {"copyFailed", "saved"}
                   THEN tempDisk \cup {UploadPath} ELSE tempDisk
    /\ UNCHANGED <<pruneCall, tempFiles, metaAddedAt, clock, appeared, applied,
                   histEntries, histDate, histFiles, histAccepted,
                   histClosed, histPc, snaps, setters, routerVars, deltaVars, ipcVars,
                   supVars, cmdVars>>

\* s.player.RegisterTempFile(dstPath)
UploadRegister ==
    /\ upl.pc = "saved"
    /\ tempFiles' = RegisterTempFile(tempFiles, UploadPath)
    /\ upl' = [upl EXCEPT !.pc = "registered"]
    /\ UNCHANGED <<pruneCall, tempDisk, metaAddedAt, clock, appeared, applied,
                   histEntries, histDate, histFiles, histAccepted,
                   histClosed, histPc, snaps, setters, routerVars, deltaVars, ipcVars,
                   supVars, cmdVars>>

\* s.player.State.StoreMetadata(dstPath, track)
UploadStoreMetadata ==
    /\ upl.pc = "registered"
    /\ state' = StoreMetadata(state, UploadPath, UploadTrack)
    /\ metaAddedAt' = [f \in (DOMAIN metaAddedAt) \cup {UploadPath} |->
                          IF f = UploadPath THEN clock ELSE metaAddedAt[f]]
    /\ upl' = [upl EXCEPT !.pc = "stored", !.storedAt = clock]
    /\ applied' = NoEvent
    /\ UNCHANGED <<pruneCall, updates, subs, nEvents, tempFiles, tempDisk, clock,
                   appeared, histEntries, histDate, histFiles,
                   histAccepted, histClosed, histPc, snaps, setters, deltaVars,
                   ipcVars, supVars, cmdVars>>

\* the events the player emits when its playlist goes from pl0 to pl1 and
\* its position from pos0 to pos1
PlayerEvents(pl0, pos0, pl1, pos1) ==
    (IF pl1 # pl0
     THEN <<Ev("playlist", FALSE, 0, [i \in 1..Len(pl1) |-> Entry(pl1[i])],
               FALSE)>>
     ELSE <<>>)
    \o (IF pos1 # pos0
        THEN <<Ev("playlist-pos", FALSE, pos1, <<>>, FALSE)>>
        ELSE <<>>)

\* Exec("loadfile", dstPath, "append-play") and the rest of handleUpload
UploadLoadfile(ok) ==
    /\ upl.pc = "stored"
    /\ IF ok
       THEN LET pl1 == Append(plist, UploadPath)
                pos1 == IF ppos < 0 THEN Len(plist) ELSE ppos
            IN  /\ plist' = pl1
                /\ ppos' = pos1
                /\ ipcEvents' = ipcEvents \o PlayerEvents(plist, ppos, pl1, pos1)
                /\ upl' = [upl EXCEPT !.pc = "done", !.status = 202,
                                      !.loaded = TRUE]
                /\ UNCHANGED tempDisk
       ELSE /\ tempDisk' = tempDisk \ {UploadPath}
            /\ upl' = [upl EXCEPT !.pc = "done", !.status = 500]
            /\ UNCHANGED <<pruneCall, plist, ppos, ipcEvents>>
    /\ UNCHANGED <<pruneCall, tempFiles, metaAddedAt, clock, appeared, applied,
                   histEntries, histDate, histFiles, histAccepted,
                   histClosed, histPc, snaps, setters, routerVars, deltaVars, conn,
                   quit, nextReqID, pending, readers, wire, requests, calls,
                   closers, held, supVars, http, issued, resolverCalls>>

\* what the player does on its own or for another client: a URL is
\* appended, the first entry is removed, or the current track ends
PlayerMoves(pl, pos) ==
    (IF Len(pl) < MaxMediaPlaylist
     THEN {[pl |-> Append(pl, "a"),
            pos |-> IF pos < 0 THEN Len(pl) ELSE pos]}
     ELSE {})
    \cup (IF pl # <<>>
          THEN {[pl |-> Tail(pl),
                 pos |-> IF pos > 0 THEN pos - 1
                         ELSE IF pos = 0 /\ Len(pl) > 1 THEN 0 ELSE -1]}
          ELSE {})
    \cup (IF pos >= 0
          THEN {[pl |-> pl, pos |-> IF pos + 1 < Len(pl) THEN pos + 1 ELSE -1]}
          ELSE {})

PlayerMove ==
    \E m \in PlayerMoves(plist, ppos) :
       /\ nEvents < MaxMediaEvents
       /\ nEvents' = nEvents + 1
       /\ plist' = m.pl
       /\ ppos' = m.pos
       /\ ipcEvents' = ipcEvents \o PlayerEvents(plist, ppos, m.pl, m.pos)
       /\ UNCHANGED <<state, updates, subs, deltaVars, conn, quit, nextReqID,
                      pending, readers, wire, requests, calls, closers, held,
                      supVars, http, issued, resolverCalls, mediaVars>>

\* the player reports a property again although its value has not changed
PlayerReport ==
    \E e \in {Ev("playlist", FALSE, 0,
                 [i \in 1..Len(plist) |-> Entry(plist[i])], FALSE)}
              \cup (IF ppos >= 0
                    THEN {Ev("playlist-pos", FALSE, ppos, <<>>, FALSE)}
                    ELSE {}) :
    /\ nEvents < MaxMediaEvents
    /\ nEvents' = nEvents + 1
    /\ ipcEvents' = Append(ipcEvents, e)
    /\ UNCHANGED <<state, updates, subs, deltaVars, conn, quit, nextReqID,
                   pending, readers, wire, requests, calls, closers, held,
                   supVars, cmdVars, mediaVars>>

\* handleEvent with everything its handlers touch: the state and its
\* metaAddedAt table, the Temp-File Registry and the History Sink
RouteEvent(s, addedAt, reg, e, now) ==
    IF e.Name = "playlist"
    THEN LET pr == PruneMetadataBefore(SetPlaylist(s, e.Entries), addedAt,
                                       ZeroTime)
             ck == checkTempFiles(reg, e.Entries)
         IN  [state |-> pr.state, metaAddedAt |-> pr.metaAddedAt,
              tempFiles |-> ck.tempFiles, removed |-> ck.removed,
              logged |-> <<>>, shouldBroadcast |-> TRUE]
    ELSE LET r == handleEvent(s, e)
         IN  [state |-> r.state, metaAddedAt |-> addedAt, tempFiles |-> reg,
              removed |-> {},
              logged |-> IF e.Name = "playlist-pos" /\ ~e.IsNull
                         THEN HistEntryFor(r.state, e.Num, now) ELSE <<>>,
              shouldBroadcast |-> r.shouldBroadcast]

\* one iteration of StartEventLoop's loop on the event sequence
MediaRouterTake ==
    /\ ipcEvents # <<>>
    /\ LET e == Head(ipcEvents)
           r == RouteEvent(state, metaAddedAt, tempFiles, e, clock)
       IN  /\ ipcEvents' = Tail(ipcEvents)
           /\ state' = r.state
           /\ metaAddedAt' = r.metaAddedAt
           /\ tempFiles' = r.tempFiles
           /\ tempDisk' = tempDisk \ r.removed
           /\ histEntries' = IF r.logged # <<>>
                             THEN Log(histEntries, r.logged[1])
                             ELSE histEntries
           /\ histAccepted' = IF r.logged # <<>> /\ Len(histEntries) < HistoryCap
                              THEN Append(histAccepted, r.logged[1])
                              ELSE histAccepted
           /\ updates' = IF r.shouldBroadcast
                         THEN TrySendUpdate(updates, Snapshot(r.state))
                         ELSE updates
           /\ applied' = e
           /\ appeared' = IF e.Name = "playlist"
                          THEN appeared \cup PlaylistFilenames(e.Entries)
                          ELSE appeared
    /\ UNCHANGED <<pruneCall, subs, nEvents, clock, upl, histDate, histFiles, histClosed,
                   histPc, snaps, setters, deltaVars, conn, quit, nextReqID, pending,
                   readers, wire, requests, calls, closers, held, supVars,
                   cmdVars>>

\* time passes
Tick ==
    /\ clock < MaxClock
    /\ clock' = clock + 1
    /\ UNCHANGED <<pruneCall, tempFiles, tempDisk, metaAddedAt, upl, appeared, applied,
                   histEntries, histDate, histFiles, histAccepted,
                   histClosed, histPc, snaps, setters, routerVars, deltaVars, ipcVars,
                   supVars, cmdVars>>

\* Manager.Run returns and its deferred CleanupTempFiles runs
RunCleanup ==
    /\ runPc # "returned"
    /\ runPc' = "returned"
    /\ tempDisk' = tempDisk \ tempFiles
    /\ tempFiles' = {}
    /\ UNCHANGED <<pruneCall, metaAddedAt, clock, upl, appeared, applied, histEntries,
                   histDate, histFiles, histAccepted, histClosed, histPc,
                   snaps, setters, routerVars, deltaVars, ipcVars, stopping, ctxDone,
                   proc, processState, sock, updatesClosed, observedStop,
                   spawns, crashes, routerPc, obsTodo, observed, stops,
                   cmdVars>>

(* ------------- PlaybackState under concurrent access ------------------ *)
\* a playlist of three entries whose second one carries the current flag
FlaggedPlaylist ==
    <<Entry("a"), [Filename |-> "b", Current |-> TRUE], Entry("a")>>

\* the property-change events of the runs that interleave setters and
\* snapshots
StateEvents ==
    {Ev(n, b, 0, <<>>, FALSE) : n \in {"idle-active", "pause"}, b \in BOOLEAN}
    \cup {Ev(n, FALSE, x, <<>>, FALSE) :
             n \in {"time-pos", "duration"}, x \in 0..MaxStateTime}
    \cup {Ev("playlist", FALSE, 0, es, FALSE) :
             es \in PlaylistInputs \cup {FlaggedPlaylist}}
    \cup {Ev("playlist-pos", FALSE, x, <<>>, FALSE) : x \in -1..1}
    \cup {Ev("playlist-pos", FALSE, 0, <<>>, TRUE)}

\* one call of a method of State: its name and its argument
Setter(op, b, n, es) == [op |-> op, Bool |-> b, Num |-> n, Entries |-> es]

\* the calls on State that the handler of event e makes, in its order
SetterCalls(e) ==
    CASE e.Name = "idle-active" ->
            <<Setter("SetIdle", e.Bool, 0, <<>>)>>
            \o (IF e.Bool
                THEN <<Setter("SetTimePos", FALSE, 0, <<>>),
                       Setter("SetDuration", FALSE, 0, <<>>)>>
                ELSE <<>>)
      [] e.Name = "pause" -> <<Setter("SetPaused", e.Bool, 0, <<>>)>>
      [] e.Name = "time-pos" -> <<Setter("SetTimePos", FALSE, e.Num, <<>>)>>
      [] e.Name = "duration" -> <<Setter("SetDuration", FALSE, e.Num, <<>>)>>
      [] e.Name = "playlist" ->
            <<Setter("SetPlaylist", FALSE, 0, e.Entries),
              Setter("PruneMetadata", FALSE, 0, <<>>)>>
      [] e.Name = "playlist-pos" ->
            <<Setter("SetPlaylistPos", FALSE,
                     IF e.IsNull THEN -1 ELSE e.Num, <<>>)>>

CallSetter(s, c) ==
    CASE c.op = "SetIdle" -> SetIdle(s, c.Bool)
      [] c.op = "SetPaused" -> SetPaused(s, c.Bool)
      [] c.op = "SetTimePos" -> SetTimePos(s, c.Num)
      [] c.op = "SetDuration" -> SetDuration(s, c.Num)
      [] c.op = "SetPlaylist" -> SetPlaylist(s, c.Entries)
      [] c.op = "PruneMetadata" -> PruneMetadata(s)
      [] c.op = "SetPlaylistPos" -> SetPlaylistPos(s, c.Num)

\* the Event Router takes an event and its handler makes its first call
StateHandle ==
    \E e \in StateEvents :
       /\ setters = <<>>
       /\ nEvents < MaxStateEvents
       /\ nEvents' = nEvents + 1
       /\ state' = CallSetter(state, Head(SetterCalls(e)))
       /\ setters' = Tail(SetterCalls(e))
       /\ UNCHANGED <<pruneCall, updates, subs, tempFiles, tempDisk, metaAddedAt, clock,
                      upl, appeared, applied, histEntries, histDate,
                      histFiles, histAccepted, histClosed, histPc, snaps,
                      deltaVars, ipcVars, supVars, cmdVars>>

\* the handler makes its next call
StateContinue ==
    /\ setters # <<>>
    /\ state' = CallSetter(state, Head(setters))
    /\ setters' = Tail(setters)
    /\ UNCHANGED <<pruneCall, updates, subs, nEvents, tempFiles, tempDisk, metaAddedAt,
                   clock, upl, appeared, applied, histEntries, histDate,
                   histFiles, histAccepted, histClosed, histPc, snaps,
                   deltaVars, ipcVars, supVars, cmdVars>>

\* a request handler calls State.StoreMetadata
StateStoreMetadata ==
    \E url \in Filenames, track \in TrackInputs :
       /\ nEvents < MaxStateEvents
       /\ nEvents' = nEvents + 1
       /\ state' = StoreMetadata(state, url, track)
       /\ UNCHANGED <<pruneCall, updates, subs, tempFiles, tempDisk, metaAddedAt, clock,
                      upl, appeared, applied, histEntries, histDate,
                      histFiles, histAccepted, histClosed, histPc, snaps,
                      setters, deltaVars, ipcVars, supVars, cmdVars>>

\* some task calls State.Snapshot()
StateSnapshot ==
    /\ snaps' = IF Len(snaps) < 2 THEN Append(snaps, Snapshot(state))
                ELSE <<snaps[2], Snapshot(state)>>
    /\ UNCHANGED <<pruneCall, tempFiles, tempDisk, metaAddedAt, clock, upl, appeared,
                   applied, histEntries, histDate, histFiles, histAccepted,
                   histClosed, histPc, setters, routerVars, deltaVars,
                   ipcVars, supVars, cmdVars>>

(* ------------------- PruneMetadataBefore by itself -------------------- *)
\* State.StoreMetadata at the current time
PruneStore ==
    \E url \in Filenames, track \in TrackInputs :
       /\ nEvents < MaxPruneEvents
       /\ nEvents' = nEvents + 1
       /\ state' = StoreMetadata(state, url, track)
       /\ metaAddedAt' = [f \in (DOMAIN metaAddedAt) \cup {url} |->
                             IF f = url THEN clock ELSE metaAddedAt[f]]
       /\ pruneCall' = <<>>
       /\ UNCHANGED <<updates, subs, tempFiles, tempDisk, clock, upl,
                      appeared, applied, histEntries, histDate, histFiles,
                      histAccepted, histClosed, histPc, snaps, setters,
                      deltaVars, ipcVars, supVars, cmdVars>>

\* State.SetPlaylist, called directly as TestState_PruneMetadata does
PruneSetPlaylist ==
    \E es \in PlaylistInputs :
       /\ nEvents < MaxPruneEvents
       /\ nEvents' = nEvents + 1
       /\ state' = SetPlaylist(state, es)
       /\ pruneCall' = <<>>
       /\ UNCHANGED <<updates, subs, tempFiles, tempDisk, metaAddedAt, clock,
                      upl, appeared, applied, histEntries, histDate,
                      histFiles, histAccepted, histClosed, histPc, snaps,
                      setters, deltaVars, ipcVars, supVars, cmdVars>>

\* State.PruneMetadataBefore(cutoff); PruneMetadata() is the call with the
\* zero time
PruneCall ==
    \E cutoff \in ZeroTime..(MaxClock + 1) :
       LET r == PruneMetadataBefore(state, metaAddedAt, cutoff)
       IN  /\ state' = r.state
           /\ metaAddedAt' = r.metaAddedAt
           /\ pruneCall' = <<[cutoff |-> cutoff,
                              deleted |-> (DOMAIN state.metadata) \
                                             DOMAIN r.state.metadata]>>
           /\ UNCHANGED <<updates, subs, nEvents, tempFiles, tempDisk, clock,
                          upl, appeared, applied, histEntries, histDate,
                          histFiles, histAccepted, histClosed, histPc, snaps,
                          setters, deltaVars, ipcVars, supVars, cmdVars>>

(* --------------------------- History Sink ----------------------------- *)
\* e.Timestamp.Local().Format("2006-01-02"): the local day of a timestamp
LocalDate(ts) == ts \div TicksPerDay

\* json.Marshal(e) with the newline appended: the fields of the entry in
\* the order of the struct, Title left out when empty
JSONLine(e) ==
    <<"timestamp", e.Timestamp>>
    \o (IF e.Title # "" THEN <<"title", e.Title>> ELSE <<>>)
    \o <<"\n">>

\* the test of write that keeps the open file for any later date
NeedsOpen_FirstOnly(open, date) == open = <<>>

\* the test of write: no file is open, or the open one is of another date
NeedsOpen(open, date) == open = <<>> \/ open[1] # date

\* Logger.write: the date of the file that is open afterwards and the files
write(open, files, e) ==
    LET date == LocalDate(e.Timestamp)
        open1 == IF NeedsOpen(open, date) THEN <<date>> ELSE open
        d == open1[1]
    IN  [histDate |-> open1,
         histFiles |-> [x \in (DOMAIN files) \cup {d} |->
                           IF x = d
                           THEN (IF d \in DOMAIN files THEN files[d] ELSE <<>>)
                                \o <<JSONLine(e)>>
                           ELSE files[x]]]

\* a call of Logger.Log with an entry stamped time.Now(), one tick after
\* the call before it; the send on a closed channel panics
LoggerLog ==
    /\ nEvents < MaxLogs
    /\ histPc.log = "ok"
    /\ nEvents' = nEvents + 1
    /\ clock' = clock + 1
    /\ LET e == HistoryEntry(clock, "t")
       IN  IF histClosed
           THEN /\ histPc' = [histPc EXCEPT !.log = "panicked"]
                /\ UNCHANGED <<pruneCall, histEntries, histAccepted>>
           ELSE /\ histEntries' = Log(histEntries, e)
                /\ histAccepted' = IF Len(histEntries) < HistoryCap
                                   THEN Append(histAccepted, e)
                                   ELSE histAccepted
                /\ UNCHANGED histPc
    /\ UNCHANGED <<pruneCall, state, updates, subs, tempFiles, tempDisk, metaAddedAt,
                   upl, appeared, applied, histDate, histFiles, histClosed,
                   snaps, setters, deltaVars, ipcVars, supVars, cmdVars>>

\* one iteration of the loop of Logger.run
LoggerWrite ==
    /\ histPc.run = "running"
    /\ histEntries # <<>>
    /\ LET w == write(histDate, histFiles, Head(histEntries))
       IN  /\ histDate' = w.histDate
           /\ histFiles' = w.histFiles
    /\ histEntries' = Tail(histEntries)
    /\ UNCHANGED <<pruneCall, tempFiles, tempDisk, metaAddedAt, clock, upl, appeared,
                   applied, histAccepted, histClosed, histPc, snaps, setters,
                   routerVars, deltaVars, ipcVars, supVars, cmdVars>>

\* the range loop of Logger.run ends: the channel is closed and drained
LoggerRunExit ==
    /\ histPc.run = "running"
    /\ histClosed
    /\ histEntries = <<>>
    /\ histPc' = [histPc EXCEPT !.run = "returned"]
    /\ UNCHANGED <<pruneCall, tempFiles, tempDisk, metaAddedAt, clock, upl, appeared,
                   applied, histEntries, histDate, histFiles, histAccepted,
                   histClosed, snaps, setters, routerVars, deltaVars, ipcVars,
                   supVars, cmdVars>>

\* Logger.Close: close(l.entries)
LoggerClose ==
    /\ histPc.close = "idle"
    /\ histClosed' = TRUE
    /\ histPc' = [histPc EXCEPT !.close = "waiting"]
    /\ UNCHANGED <<pruneCall, tempFiles, tempDisk, metaAddedAt, clock, upl, appeared,
                   applied, histEntries, histDate, histFiles, histAccepted,
                   snaps, setters, routerVars, deltaVars, ipcVars, supVars, cmdVars>>

\* Logger.Close: l.wg.Wait() returns
LoggerCloseReturn ==
    /\ histPc.close = "waiting"
    /\ histPc.run = "returned"
    /\ histPc' = [histPc EXCEPT !.close = "returned"]
    /\ UNCHANGED <<pruneCall, tempFiles, tempDisk, metaAddedAt, clock, upl, appeared,
                   applied, histEntries, histDate, histFiles, histAccepted,
                   histClosed, snaps, setters, routerVars, deltaVars, ipcVars,
                   supVars, cmdVars>>

InitMediaIdle ==
    /\ tempFiles = {}
    /\ tempDisk = {}
    /\ metaAddedAt = [f \in {} |-> 0]
    /\ clock = 1
    /\ upl = [pc |-> "idle", created |-> FALSE, storedAt |-> 0,
              loaded |-> FALSE, status |-> 0]
    /\ appeared = {}
    /\ applied = NoEvent
    /\ histEntries = <<>>
    /\ histDate = <<>>
    /\ histFiles = [d \in {} |-> <<>>]
    /\ histAccepted = <<>>
    /\ histClosed = FALSE
    /\ histPc = [run |-> "running", close |-> "idle", log |-> "ok"]
    /\ snaps = <<>>
    /\ setters = <<>>
    /\ pruneCall = <<>>

(* -------------------------- specifications ---------------------------- *)
InitRouter(ids) ==
    /\ state = NewState
    /\ updates = <<>>
    /\ subs = [c \in ids |-> NewSub]
    /\ nEvents = 0

InitDeltaIdle ==
    /\ dPrev = ZeroSnapshot
    /\ dCurr = ZeroSnapshot
    /\ dOut = NilDelta
    /\ dDone = FALSE

EventLoop == RouterStep(PropertyEvents, MaxEvents)

Init ==
    InitRouter({"s1"}) /\ InitDeltaIdle /\ InitIPC /\ InitSup /\ InitCmdIdle
    /\ InitMediaIdle

Next ==
    \/ EventLoop
    \/ HandleQueue
    \/ BroadcasterRun
    \/ \E c \in Subs : HandleEventsInitial(c)
    \/ \E c \in Subs : AddClient(c)
    \/ \E c \in Subs : HandleEventsWrite(c)
    \/ \E c \in Subs : RemoveClient(c)

Spec == Init /\ [][Next]_vars

(* A run of version-bumping events long enough to fill a client queue,    *)
(* with two subscribers.                                                   *)

FanEventLoop == RouterStep(FanEvents, MaxFanEvents)

InitFan ==
    InitRouter({"s1", "s2"}) /\ InitDeltaIdle /\ InitIPC /\ InitSup /\ InitCmdIdle
    /\ InitMediaIdle

NextFan ==
    \/ FanEventLoop
    \/ BroadcasterRun
    \/ \E c \in Subs : HandleEventsInitial(c)
    \/ \E c \in Subs : AddClient(c)
    \/ \E c \in Subs : HandleEventsWrite(c)
    \/ \E c \in Subs : RemoveClient(c)

SpecFan == InitFan /\ [][NextFan]_vars

(* The router, the Broadcaster and one subscriber of a player that stops  *)
(* emitting events after at most MaxEvents of them. Broadcaster.Run and    *)
(* the handler of the subscriber are goroutines that the scheduler keeps   *)
(* running: an iteration of Run that can be taken is taken, and so are the *)
(* handler's registration and its receive from a non-empty queue.          *)
NextConverge ==
    \/ EventLoop
    \/ BroadcasterRun
    \/ \E c \in Subs : HandleEventsInitial(c)
    \/ \E c \in Subs : AddClient(c)
    \/ \E c \in Subs : HandleEventsWrite(c)
    \/ \E c \in Subs : RemoveClient(c)

FairConverge ==
    /\ WF_vars(BroadcasterRun)
    /\ WF_vars(AddClient("s1"))
    /\ WF_vars(HandleEventsWrite("s1"))

SpecConverge == Init /\ [][NextConverge]_vars /\ FairConverge

(* ComputeDelta as a function of two arbitrary snapshots.                  *)
QueueInputs ==
    {<<>>,
     <<QueueItem(0, "a", "t", 0, TRUE)>>,
     <<QueueItem(0, "a", "t", 1, TRUE)>>}

SnapshotInputs ==
    UNION {{MkSnapshot(v, st, t, d, q, cur) :
               v \in 0..MaxDeltaVersion, st \in PlaybackStatus,
               t \in 0..MaxTime, d \in 0..MaxTime, cur \in -1..(Len(q) - 1)} :
           q \in QueueInputs}

InitDelta ==
    /\ dPrev \in SnapshotInputs
    /\ dCurr \in SnapshotInputs
    /\ dOut = NilDelta
    /\ dDone = FALSE

CallComputeDelta ==
    /\ ~dDone
    /\ dOut' = ComputeDelta(dPrev, dCurr)
    /\ dDone' = TRUE
    /\ UNCHANGED <<dPrev, dCurr, routerVars, ipcVars, supVars,
                   cmdVars, mediaVars>>

NextDelta == CallComputeDelta

InitDeltaSpec ==
    InitRouter({"s1"}) /\ InitDelta /\ InitIPC /\ InitSup /\ InitCmdIdle
    /\ InitMediaIdle

SpecDelta == InitDeltaSpec /\ [][NextDelta]_vars

(* The IPC transport with its callers, the player and the event consumer.  *)
InitIPCSpec ==
    InitRouter({"s1"}) /\ InitDeltaIdle /\ InitIPC /\ InitSup /\ InitCmdIdle
    /\ InitMediaIdle

NextIPC ==
    \/ Connect
    \/ \E p \in Callers : ExecBegin(p)
    \/ \E p \in Callers : ExecWrite(p)
    \/ \E p \in Callers : ExecReceive(p)
    \/ \E p \in Callers : ExecTimeout(p)
    \/ PlayerReply
    \/ PlayerEvent
    \/ ReadLoopScan
    \/ ReadLoop
    \/ ReadLoopExit
    \/ TakeEvent
    \/ \E k \in Closers : CloseBegin(k)
    \/ \E k \in Closers : CloseReturn(k)

SpecIPC == InitIPCSpec /\ [][NextIPC]_vars

(* The IPC transport under a burst of events that fills the event       *)
(* sequence, with one Exec call and one Close call.                        *)
BurstEvents == EventsCap + 1

PlayerEventBurst ==
    /\ Len(wire) < MaxWire
    /\ EmitEvent(BurstEvents)

NextBurst ==
    \/ Connect
    \/ ExecBegin("g1")
    \/ ExecWrite("g1")
    \/ ExecReceive("g1")
    \/ ExecTimeout("g1")
    \/ PlayerReply
    \/ PlayerEventBurst
    \/ ReadLoopScan
    \/ ReadLoop
    \/ ReadLoopExit
    \/ TakeEvent
    \/ CloseBegin("k1")
    \/ CloseReturn("k1")

SpecBurst == InitIPCSpec /\ [][NextBurst]_vars

(* The Player Supervisor with the transport, Stop, the Event Router, the  *)
(* Broadcaster and one subscriber.                                         *)
InitSupSpec ==
    InitRouter({"s1"}) /\ InitDeltaIdle /\ InitIPC /\ InitSup /\ InitCmdIdle
    /\ InitMediaIdle

\* the supervisor, the player, the transport, the Event Router and one
\* call of Stop
NextRun ==
    \/ RunBegin
    \/ RunTop
    \/ RunSpawn
    \/ RunWaitSocket
    \/ RunConnect
    \/ ObserveProperties
    \/ RunFailed
    \/ RunWait
    \/ SocketAppears
    \/ ProcCrash
    \/ PlayerQuit
    \/ SupPlayerEvent
    \/ Cancel
    \/ ReadLoopScan
    \/ ReadLoop
    \/ ReadLoopExit
    \/ RouterTake
    \/ RouterReturn
    \/ StopBegin("k1")
    \/ StopExecBegin("k1")
    \/ ExecWrite("g1")
    \/ ExecReceive("g1")
    \/ ExecTimeout("g1")
    \/ StopCloseBegin("k1")
    \/ CloseReturn("k1")
    \/ StopCloseUpdates("k1")

NextSup ==
    \/ NextRun
    \/ BroadcasterRun
    \/ HandleEventsInitial("s1")
    \/ AddClient("s1")
    \/ StopBegin("k2")
    \/ StopExecBegin("k2")
    \/ ExecWrite("g2")
    \/ ExecReceive("g2")
    \/ ExecTimeout("g2")
    \/ StopCloseBegin("k2")
    \/ CloseReturn("k2")
    \/ StopCloseUpdates("k2")

SpecSup == InitSupSpec /\ [][NextSup]_vars

\* every task of the program keeps running (no task starves another), a
\* timer fires, and a running player creates its socket
FairRun ==
    /\ WF_vars(RunBegin) /\ WF_vars(RunTop) /\ WF_vars(RunSpawn)
    /\ WF_vars(RunWaitSocket) /\ WF_vars(RunConnect)
    /\ WF_vars(ObserveProperties) /\ WF_vars(RunFailed) /\ WF_vars(RunWait)
    /\ WF_vars(SocketAppears)
    /\ WF_vars(ReadLoopScan) /\ WF_vars(ReadLoop) /\ WF_vars(ReadLoopExit)
    /\ WF_vars(RouterTake) /\ WF_vars(RouterReturn)
    /\ WF_vars(StopExecBegin("k1")) /\ WF_vars(ExecWrite("g1"))
    /\ WF_vars(ExecReceive("g1") \/ ExecTimeout("g1"))
    /\ WF_vars(StopCloseBegin("k1")) /\ WF_vars(CloseReturn("k1"))
    /\ WF_vars(StopCloseUpdates("k1"))

SpecRunLive == InitSupSpec /\ [][NextRun]_vars /\ FairRun

(* The command surface serving one request against a player whose         *)
(* playlist and position are drawn at the start.                           *)
InitCmd ==
    /\ InitRouter({"s1"}) /\ InitDeltaIdle /\ InitIPC /\ InitSup
    /\ InitMediaIdle
    /\ \E n \in 0..MaxPlaylist :
          /\ plist = [j \in 1..n |-> j]
          /\ ppos \in -1..(n - 1)
    /\ http = HttpIdle
    /\ issued = <<>>
    /\ resolverCalls = 0

NextCmd ==
    \/ \E req \in PlaybackRequests, ok \in BOOLEAN : handlePlayback(req, ok)
    \/ \E ok \in BOOLEAN : PlayIndexGetPos(ok)
    \/ \E ok \in BOOLEAN : PlayIndexMove(ok)
    \/ \E ok \in BOOLEAN : PlayIndexPlay(ok)
    \/ \E req \in QueueRequests, resolved, ok \in BOOLEAN,
          track \in TrackInputs : handleQueue(req, resolved, track, ok)
    \/ \E req \in RemoveRequests, ok \in BOOLEAN : handleRemove(req, ok)

SpecCmd == InitCmd /\ [][NextCmd]_vars

(* One play request served while other requests reach the player and the  *)
(* current track may end.                                                  *)
NextRace ==
    \/ \E req \in PlaybackRequests, ok \in BOOLEAN : handlePlayback(req, ok)
    \/ \E ok \in BOOLEAN : PlayIndexGetPos(ok)
    \/ \E ok \in BOOLEAN : PlayIndexMove(ok)
    \/ \E ok \in BOOLEAN : PlayIndexPlay(ok)
    \/ OtherRequest
    \/ TrackEnds

SpecRace == InitCmd /\ [][NextRace]_vars

(* One upload served while the player changes its playlist, the Event     *)
(* Router applies the events, time passes and the supervisor returns.     *)
NextMedia ==
    \/ \E outcome \in {"invalid", "createFailed", "copyFailed", "saved"} :
          UploadSave(outcome)
    \/ UploadRegister
    \/ UploadStoreMetadata
    \/ \E ok \in BOOLEAN : UploadLoadfile(ok)
    \/ PlayerMove
    \/ PlayerReport
    \/ MediaRouterTake
    \/ Tick
    \/ RunCleanup

SpecMedia == Init /\ [][NextMedia]_vars

(* The History Sink with a caller of Log, the worker and one call of      *)
(* Close.                                                                  *)
NextHistory ==
    \/ LoggerLog
    \/ LoggerWrite
    \/ LoggerRunExit
    \/ LoggerClose
    \/ LoggerCloseReturn

SpecHistory == Init /\ [][NextHistory]_vars

(* The PlaybackState written by the Event Router's handlers and by        *)
(* StoreMetadata while snapshots are taken between any two calls.          *)
NextState ==
    \/ StateHandle
    \/ StateContinue
    \/ StateStoreMetadata
    \/ StateSnapshot

SpecState == Init /\ [][NextState]_vars

(* StoreMetadata, SetPlaylist and PruneMetadataBefore called in any order *)
(* as time passes.                                                         *)
NextPrune ==
    \/ PruneStore
    \/ PruneSetPlaylist
    \/ PruneCall
    \/ Tick

SpecPrune == Init /\ [][NextPrune]_vars

(* ------------------------------ claims -------------------------------- *)
\* the version a frame carries
MsgVersion(msg) == IF msg.full THEN msg.snap.Version ELSE msg.delta.Version

Connected(c) == subs[c].pc \in {"flushed", "registered"}

\* a step of Broadcaster.Run: the only step that takes from the channel
BroadcastStep == Len(updates') = Len(updates) - 1

\* C1: the versions of the frames one client receives, the initial snapshot
\* first and then the queued frames in order, never decrease.
C1_VersionsNonDecreasing ==
    [][\A c \in Subs :
          (Connected(c) /\ subs'[c].pc = subs[c].pc)
             => subs'[c].view.Version >= subs[c].view.Version]_vars

\* the fields of a snapshot a client rebuilds: queue (filename, title and
\* duration per index), status, current_index, current_time, duration
QueueView(q) ==
    [i \in 1..Len(q) |-> <<q[i].Filename, q[i].Title, q[i].Duration>>]

ClientView(snap) ==
    <<QueueView(snap.Queue), snap.Status, snap.CurrentIdx, snap.CurrentTime,
      snap.Duration>>

\* C2: a client that has consumed every frame queued for it holds the state
\* of its last_delivered_snapshot.
C2_ClientMatchesLastDelivered ==
    \A c \in Subs :
       (Registered(c) /\ subs[c].ch = <<>>)
          => ClientView(subs[c].view) = ClientView(subs[c].lastSnap)

\* the fields a Delta projects
DeltaView(snap) ==
    <<snap.Version, snap.CurrentTime, snap.Duration, snap.Status,
      snap.CurrentIdx>>

\* C3 as stated: for equal queues and A.version <= B.version, applying
\* ComputeDelta(A, B) to A yields B in every field a Delta projects.
C3_DeltaRebuildsAnySnapshot ==
    (dDone /\ dPrev.Queue = dCurr.Queue /\ dPrev.Version <= dCurr.Version)
       => DeltaView(ApplyDelta(dPrev, dOut)) = DeltaView(dCurr)

\* C3 amended: the same for A.version >= 1 and, when the versions are
\* equal, A and B agreeing in status and current_index.
C3_DeltaRebuildsSentSnapshot ==
    (/\ dDone
     /\ dPrev.Queue = dCurr.Queue
     /\ dPrev.Version >= 1
     /\ dPrev.Version <= dCurr.Version
     /\ (dPrev.Version = dCurr.Version
            => /\ dPrev.Status = dCurr.Status
               /\ dPrev.CurrentIdx = dCurr.CurrentIdx))
       => DeltaView(ApplyDelta(dPrev, dOut)) = DeltaView(dCurr)

C3_Witness ==
    /\ dDone
    /\ dPrev.Queue = dCurr.Queue
    /\ dPrev.Version >= 1
    /\ dPrev.Version < dCurr.Version
    /\ DeltaView(dPrev) # DeltaView(dCurr)
    /\ dPrev.Status # dCurr.Status
    /\ ~dOut.nil

\* what C4 expects the Broadcaster to send for last-delivered L and new S
C4_Expected(L, S) ==
    IF L.Version = 0 \/ queueChanged(L.Queue, S.Queue) THEN "full"
    ELSE IF /\ S.Version = L.Version
            /\ S.CurrentTime = L.CurrentTime
            /\ S.Duration = L.Duration
    THEN "nothing"
    ELSE "delta"

\* C4: the Broadcaster sends a full snapshot exactly when L.version = 0 or
\* the queues differ, nothing when the version, current_time and duration
\* are all unchanged, and a delta in every other case.
C4_FullDeltaOrNothing ==
    [][BroadcastStep =>
         \A c \in Subs :
            (Registered(c) /\ Len(subs[c].ch) < ClientQueueCap) =>
               LET L == subs[c].lastSnap
                   S == Head(updates)
                   kind == C4_Expected(L, S)
                   ch == subs'[c].ch
               IN  IF kind = "nothing" THEN ch = subs[c].ch
                   ELSE /\ Len(ch) = Len(subs[c].ch) + 1
                        /\ ch[Len(ch)].full = (kind = "full")]_vars

\* the case of C5: a higher version than the last delivered one (> 0), the
\* same queue, and a difference in current_time only
C5_Case ==
    /\ dDone
    /\ dPrev.Version > 0
    /\ dCurr.Version > dPrev.Version
    /\ dCurr.Queue = dPrev.Queue
    /\ dCurr.CurrentTime # dPrev.CurrentTime
    /\ dCurr.Duration = dPrev.Duration
    /\ dCurr.Status = dPrev.Status
    /\ dCurr.CurrentIdx = dPrev.CurrentIdx

\* C5 as stated: in that case the delta carries the new version and
\* current_time and no other field.
C5_DeltaCarriesTimeOnly ==
    C5_Case => (/\ ~dOut.nil
                /\ dOut.Version = dCurr.Version
                /\ dOut.has = {"current_time"}
                /\ dOut.CurrentTime = dCurr.CurrentTime)

\* C5 amended: in that case the delta carries the new version and all of
\* current_time, duration, status and current_index, with the values of
\* the new snapshot.
C5_DeltaCarriesAllFields ==
    C5_Case => (/\ ~dOut.nil
                /\ dOut.Version = dCurr.Version
                /\ dOut.has = DeltaFields
                /\ dOut.CurrentTime = dCurr.CurrentTime
                /\ dOut.Duration = dCurr.Duration
                /\ dOut.Status = dCurr.Status
                /\ dOut.CurrentIdx = dCurr.CurrentIdx)

C5_Witness == C5_Case /\ dCurr.Duration > 0 /\ dCurr.CurrentIdx = 0

\* C6: a Broadcaster step leaves a subscriber whose queue holds 10 frames
\* untouched (queue and last_delivered_snapshot), still appends one frame
\* of the new version for every other subscriber and records the snapshot
\* for it, changes last_delivered_snapshot only together with a successful
\* send, and is enabled whenever the update channel holds a snapshot.
C6_FullQueueDropsUpdate ==
    /\ [](updates # <<>> => ENABLED BroadcasterRun)
    /\ [][BroadcastStep =>
            \A c \in Subs :
               Registered(c) =>
                  LET ch == subs[c].ch
                      ch2 == subs'[c].ch
                  IN  /\ Len(ch) = ClientQueueCap => subs'[c] = subs[c]
                      /\ Len(ch) < ClientQueueCap =>
                            /\ Len(ch2) = Len(ch) + 1
                            /\ SubSeq(ch2, 1, Len(ch)) = ch
                            /\ MsgVersion(ch2[Len(ch2)]) = Head(updates).Version
                            /\ subs'[c].lastSnap = Head(updates)
                      /\ subs'[c].lastSnap # subs[c].lastSnap
                            => Len(ch2) = Len(ch) + 1]_vars

\* a subscriber with a full queue was passed over while another one got
\* the frame of a later snapshot
C6_Witness ==
    \E c, o \in Subs :
       /\ c # o
       /\ Registered(c) /\ Registered(o)
       /\ Len(subs[c].ch) = ClientQueueCap
       /\ subs[o].ch # <<>>
       /\ Len(subs[o].ch) < ClientQueueCap
       /\ MsgVersion(subs[o].ch[Len(subs[o].ch)]) > subs[c].lastSnap.Version

InFlight(p) == calls[p].pc \in {"registered", "waiting"}

\* C7: every Exec call returns, with the data of the reply that carries
\* its own request id or with a failure; the ids are strictly positive and
\* pairwise distinct and no call receives another call's reply.
C7_ExecReturnsOwnReplyOrFailure ==
    /\ \A p \in Callers : calls[p].pc # "panicked"
    /\ \A p \in Callers : calls[p].pc # "idle" => calls[p].id > 0
    /\ \A p, q \in Callers :
          (p # q /\ calls[p].pc # "idle" /\ calls[q].pc # "idle")
             => calls[p].id # calls[q].id
    /\ \A p \in Callers :
          (calls[p].pc = "done" /\ calls[p].result.kind = "data")
             => /\ calls[p].resp.RequestID = calls[p].id
                /\ calls[p].result.Data = DataFor(calls[p].id)

\* C8: the pending-reply table holds only ids of Exec calls in flight.
C8_PendingOnlyInFlight ==
    \A id \in DOMAIN pending :
       \E p \in Callers : InFlight(p) /\ calls[p].id = id

\* calls have returned in each way while another one is still in flight
C8_Witness ==
    /\ \E p \in Callers :
          calls[p].pc = "done" /\ calls[p].result.kind = "timeout"
    /\ \E p \in Callers : calls[p].pc = "waiting"
    /\ DOMAIN pending # {}
    /\ nextReqID = MaxReqs

\* C9: a second or later call of Close completes without failure.
C9_CloseIsIdempotent ==
    \A k \in Closers : closers[k] # "panicked"

\* C10: once Close has returned, no Exec call is left waiting for a reply:
\* Close has failed every call that was waiting.
C10_CloseFailsWaitingCalls ==
    (\E k \in Closers : closers[k] = "done")
       => \A p \in Callers : calls[p].pc # "waiting"

\* C11: readLoop never blocks on a full event sequence: whenever it holds
\* a scanned line it can route it (a full sequence drops its oldest event),
\* so a later reply line still reaches its Exec call.
C11_ReaderNeverBlocksOnFullEvents ==
    ~(/\ readers > 0
      /\ held # <<>>
      /\ Head(held).isEvent
      /\ Len(ipcEvents) >= EventsCap)

\* C12: the update channel is never closed twice, also with two calls of
\* Stop, and it is closed only after Run has observed the stopping flag.
C12_UpdatesClosedOnceAfterStopObserved ==
    /\ \A k \in Closers : stops[k] # "panicked"
    /\ updatesClosed => observedStop

\* C13: once the stopping flag is set, no step puts a snapshot on the
\* update channel or a frame on a subscriber's queue.
C13_NoUpdateAfterStopRequested ==
    [][stopping =>
          /\ Len(updates') <= Len(updates)
          /\ \A c \in Subs : Len(subs'[c].ch) <= Len(subs[c].ch)]_vars

\* C14: no player process is spawned once the stopping flag is set.
C14_NoSpawnAfterStopping ==
    [][spawns' > spawns => ~stopping]_vars

\* the player runs, the transport is connected to it and every property
\* of RegisterObservers has been observed on this connection
Restarted ==
    /\ proc = "running"
    /\ conn = "open"
    /\ observed = {Properties[i] : i \in 1..Len(Properties)}

\* C15: after an unexpected exit of the player, with no stop requested and
\* the context not cancelled, the supervisor eventually has a new player
\* spawned, connected and observed (unless a stop or a cancel intervenes).
C15_RestartsAfterUnexpectedExit ==
    (proc = "exited" /\ ~stopping /\ ~ctxDone)
        ~> (Restarted \/ stopping \/ ctxDone)

\* C16: when the player has terminated before its socket file appeared,
\* the socket wait ends with the premature-exit error (or the context is
\* cancelled first).
C16_PrematureExitEndsSocketWait ==
    (runPc = "waitSocket" /\ proc = "exited" /\ ~sock)
        ~> (runPc = "failed" \/ ctxDone)

\* Stop has returned, Run has returned, and the reader and the Event
\* Router have terminated
ShutdownComplete ==
    /\ stops["k1"] = "done"
    /\ runPc = "returned"
    /\ readers = 0
    /\ routerPc = "returned"

\* C17: once Stop has been called and the context is cancelled, shutdown
\* completes (leaving aside a Stop whose Exec crashed on a transport that
\* was never connected).
C17_ShutdownCompletes ==
    (stops["k1"] # "idle" /\ ctxDone /\ calls["g1"].pc # "panicked")
        ~> (ShutdownComplete \/ calls["g1"].pc = "panicked")

\* a served play request: the playlist P and position c the player had,
\* and the target t
PlayServed ==
    /\ http.pc = "done"
    /\ http.req.kind = "playback"
    /\ PlaybackRequest(http.req).Action = "play"
    /\ Len(issued) >= 2

\* the commands PlayIndex issued after reading playlist-pos
PlayCmds == Tail(issued)

\* C18: with position c and target t, PlayIndex issues one
\* playlist-play-index(t) and no move when c < 0 or t <= c; when
\* 0 <= c < t < |P| and every command is applied it issues t - c - 1 times
\* playlist-move(c+1, -1) and then playlist-play-index(c+1), after which
\* the item of index t is current at c+1, the items up to c are untouched
\* and the skipped items are at the tail in their order.
C18_PlayIndexReordersQueue ==
    PlayServed =>
       LET P == http.p0
           c == http.c0
           t == http.target
           k == t - c - 1
       IN  /\ (c < 0 \/ t <= c) =>
                 PlayCmds = <<Cmd("playlist-play-index", t, 0)>>
           /\ (0 <= c /\ c < t /\ t < Len(P) /\ http.status = 200) =>
                 /\ PlayCmds =
                       [j \in 1..(k + 1) |->
                           IF j <= k THEN Cmd("playlist-move", c + 1, -1)
                           ELSE Cmd("playlist-play-index", c + 1, 0)]
                 /\ ppos = c + 1
                 /\ Len(plist) = Len(P)
                 /\ plist[c + 2] = P[t + 1]
                 /\ \A j \in 1..(c + 1) : plist[j] = P[j]
                 /\ \A m \in 1..k : plist[Len(P) - k + m] = P[c + 1 + m]
                 /\ \A m \in 1..(Len(P) - t - 1) :
                       plist[c + 2 + m] = P[t + 1 + m]

\* a play request that skipped two items of a playlist with items after
\* the target has been served
C18_Witness ==
    /\ PlayServed
    /\ http.status = 200
    /\ http.c0 >= 0
    /\ http.target - http.c0 >= 3
    /\ http.target < Len(http.p0) - 1

\* the {index} value is no decimal integer
NotNumeric(str) ==
    \/ str = <<>>
    \/ \E i \in 1..Len(str) :
          /\ str[i] \notin Digits
          /\ ~(i = 1 /\ str[1] \in {"-", "+"} /\ Len(str) > 1)

\* the requests C19 speaks of
InvalidRequest(req) ==
    \/ /\ req.kind = "playback"
       /\ ~req.malformed
       /\ \/ "action" \notin req.fields
          \/ req.action \notin {"pause", "resume", "skip", "previous",
                                "play"}
    \/ /\ req.kind = "queue"
       /\ ~req.malformed
       /\ "url" \notin req.fields \/ req.url = ""
    \/ /\ req.kind = "remove"
       /\ NotNumeric(req.indexStr)

\* C19: a playback command with an action outside the enumerated set, an
\* enqueue without a URL and a remove whose index is empty or not numeric
\* are answered 400, with no IPC command, no resolver call and no change
\* of playback state, metadata or the player.
C19_InvalidRequestsRejected ==
    (http.pc # "idle" /\ InvalidRequest(http.req)) =>
       /\ http.pc = "done"
       /\ http.status = 400
       /\ issued = <<>>
       /\ resolverCalls = 0
       /\ state = NewState
       /\ plist = http.p0
       /\ ppos = http.c0

\* a remove whose index starts with a digit and is not numeric has been
\* answered
C19_Witness ==
    /\ http.pc = "done"
    /\ http.req.kind = "remove"
    /\ http.req.indexStr = <<"1", "a">>
    /\ http.status = 400

\* a remove or a play request with a negative index
NegativeIndexRequest(req) ==
    \/ /\ req.kind = "remove"
       /\ ~NotNumeric(req.indexStr)
       /\ req.indexStr[1] = "-"
    \/ /\ req.kind = "playback"
       /\ ~req.malformed
       /\ req.fields = {"action", "index"}
       /\ req.action = "play"
       /\ req.index < 0

\* C20: remove-at-index and play-at-index with a negative index are
\* answered 400 and send no IPC command.
C20_NegativeIndexRejected ==
    (http.pc # "idle" /\ NegativeIndexRequest(http.req)) =>
       /\ issued = <<>>
       /\ http.pc = "done" => http.status = 400

\* C21: a path in the Temp-File Registry is unlinked, or leaves the
\* registry, only once an applied playlist event has contained it, at
\* shutdown, or when the upload's own loadfile has failed; a playlist
\* event applied before the path's first appearance does neither.
C21_UnlinkOnlyAfterAppearance ==
    [][\A p \in tempFiles :
          (p \notin tempFiles' \/ (p \in tempDisk /\ p \notin tempDisk'))
          => \/ p \in appeared
             \/ runPc # "returned" /\ runPc' = "returned"
             \/ upl.pc = "stored" /\ upl'.status = 500]_vars

\* C22: when the upload handler returns, the file it created has been
\* deleted or is in the Temp-File Registry with its loadfile succeeded.
C22_UploadLeavesNoOrphan ==
    [][(upl.pc # "done" /\ upl'.pc = "done" /\ upl'.created) =>
          \/ UploadPath \notin tempDisk'
          \/ UploadPath \in tempFiles' /\ upl'.loaded]_vars

\* C23: within the grace period after its insertion, the metadata of an
\* upload stays in the table until a playlist event has contained its key,
\* and the queue item of that key carries the stored title.
C23_MetadataKeptUntilFirstAppearance ==
    (upl.pc \in {"stored", "done"} /\ clock - upl.storedAt < 1) =>
       /\ UploadPath \notin appeared => UploadPath \in DOMAIN state.metadata
       /\ \A i \in 1..Len(state.playlist) :
             state.playlist[i].Filename = UploadPath =>
                ItemOf(state, i - 1).Title = UploadTrack.Title

\* C24: an entry is put on the history channel only by a step that changes
\* the state's playlist position.
C24_HistoryOnlyOnPositionChange ==
    [][Len(histEntries') > Len(histEntries) =>
          state'.playlistPos # state.playlistPos]_vars

\* C28: a playlist event applied right after the same playlist event leaves
\* the version as the first application left it.
C28_RepeatedPlaylistKeepsVersion ==
    [][(/\ ipcEvents # <<>>
        /\ ipcEvents' = Tail(ipcEvents)
        /\ applied' = Head(ipcEvents)
        /\ applied.Name = "playlist"
        /\ applied' = applied) =>
          state'.version = state.version]_vars

\* the accepted entries that the worker has taken off the channel
HistWritten == SubSeq(histAccepted, 1, Len(histAccepted) - Len(histEntries))

\* the lines the file of date d must hold
HistExpected(d) ==
    LET es == SelectSeq(HistWritten, LAMBDA e : LocalDate(e.Timestamp) = d)
    IN  [i \in 1..Len(es) |-> JSONLine(es[i])]

C26_SnapshotVersionsNonDecreasing ==
    Len(snaps) = 2 => snaps[2].Version >= snaps[1].Version

\* two snapshots taken around a version bump, the later one in the middle
\* of a handler
C26_Witness ==
    /\ Len(snaps) = 2
    /\ snaps[2].Version > snaps[1].Version
    /\ snaps[1].Version > 0
    /\ setters # <<>>

\* C27: two snapshots of the same version agree on status, duration,
\* current_index and queue.
C27_SameVersionSameContent ==
    (Len(snaps) = 2 /\ snaps[2].Version = snaps[1].Version) =>
       /\ snaps[2].Status = snaps[1].Status
       /\ snaps[2].Duration = snaps[1].Duration
       /\ snaps[2].CurrentIdx = snaps[1].CurrentIdx
       /\ snaps[2].Queue = snaps[1].Queue

\* C29: a step that changes the state's playlist position leaves its time
\* position and duration 0.
C29_PositionChangeResetsTime ==
    [][state'.playlistPos # state.playlistPos =>
          state'.timePos = 0 /\ state'.duration = 0]_vars

\* C30: no snapshot that is not idle and has a positive duration reports a
\* current_time beyond it.
C30_TimeWithinDuration ==
    \A i \in 1..Len(snaps) :
       (snaps[i].Status # StatusIdle /\ snaps[i].Duration > 0) =>
          snaps[i].CurrentTime <= snaps[i].Duration

\* the snapshot a step of State.Snapshot() has just returned
Taken == snaps'[Len(snaps')]

\* the indices of the playlist entries whose current flag is set
Flagged(s) == {i \in 0..(Len(s.playlist) - 1) : s.playlist[i + 1].Current}

\* C31: a valid playlist_pos is the snapshot's current_index; with a
\* playlist_pos that is no valid index, current_index and now_playing are
\* those of the entry whose current flag is set, if there is one.
C31_CurrentFlagIsFallback ==
    [][snaps' # snaps =>
          /\ (state.playlistPos >= 0 /\ state.playlistPos < Len(state.playlist))
                => Taken.CurrentIdx = state.playlistPos
          /\ (~(state.playlistPos >= 0 /\ state.playlistPos < Len(state.playlist))
              /\ Flagged(state) # {})
                => /\ Taken.CurrentIdx \in Flagged(state)
                   /\ Taken.NowPlaying = <<Taken.Queue[Taken.CurrentIdx + 1]>>]_vars

\* C32: in every snapshot taken, current_index is -1 exactly when
\* now_playing is absent; a present now_playing is the queue item at
\* current_index; history and upcoming are the queue items below and above
\* current_index, in queue order.
C32_SnapshotPartitionsQueue ==
    \A k \in 1..Len(snaps) :
       LET snap == snaps[k]
           cur == snap.CurrentIdx
           n == Len(snap.Queue)
       IN  /\ (cur = -1) <=> (snap.NowPlaying = <<>>)
           /\ cur # -1 => /\ cur >= 0 /\ cur < n
                          /\ snap.NowPlaying = <<snap.Queue[cur + 1]>>
           /\ \A i \in 1..n : snap.Queue[i].Index = i - 1
           /\ snap.History =
                 [i \in 1..(IF cur < 0 THEN 0 ELSE cur) |-> snap.Queue[i]]
           /\ snap.Upcoming =
                 [i \in 1..(n - 1 - cur) |-> snap.Queue[cur + 1 + i]]

\* a snapshot with a track before and a track after the current one, and a
\* snapshot of a state whose playlist_pos is no index of the playlist
C32_Witness ==
    /\ Len(snaps) = 2
    /\ snaps[1].CurrentIdx = 1
    /\ Len(snaps[1].History) = 1
    /\ Len(snaps[1].Upcoming) = 1
    /\ snaps[2].CurrentIdx = -1
    /\ snaps[2].Queue # <<>>
    /\ state.playlistPos = 1

\* C33: a subscriber's queue is closed at most once and only together with
\* the deletion of its registry entry, the Broadcaster never sends on a
\* closed queue, and a removed subscriber is not in the registry.
C33_RemoveClosesOnceNoSendAfter ==
    \A c \in Subs :
       /\ subs[c].closes <= 1
       /\ ~subs[c].sentClosed
       /\ subs[c].inRegistry => subs[c].closes = 0
       /\ subs[c].pc = "removed" =>
             ~subs[c].inRegistry /\ subs[c].closes = 1

\* one subscriber has been removed while the other is still served and the
\* Broadcaster has an update to deliver
C33_Witness ==
    /\ subs["s1"].pc = "removed"
    /\ Registered("s2")
    /\ subs["s2"].ch # <<>>
    /\ updates # <<>>

\* C34: the state's playlist_pos is -1 or an index of its playlist.
C34_PlaylistPosValid ==
    \/ state.playlistPos = -1
    \/ state.playlistPos >= 0 /\ state.playlistPos < Len(state.playlist)

\* C36: the Event Router never sends on the update channel once it is
\* closed.
C36_NoSendOnClosedUpdates == routerPc # "panicked"

\* C37: no call of Exec crashes, and no call of Stop crashes in its Exec,
\* whatever the state of the transport; on a transport that was never
\* connected Exec returns an error.
C37_ExecAndStopNeverCrash ==
    /\ \A p \in Callers :
          /\ calls[p].pc # "panicked"
          /\ (calls[p].pc = "done" /\ conn = "nil") =>
                calls[p].result.kind # "data"
    /\ \A k \in Closers :
          ~(stops[k] = "called" /\ calls[StopCaller(k)].pc = "panicked")

\* C40: the metadata table changes only in a call of StoreMetadata or of
\* PruneMetadata; no call made by the handler of an idle-active or duration
\* event changes it.
C40_MirroredPropertiesKeepMetadata ==
    [][state'.metadata # state.metadata =>
          \/ state'.version > state.version
          \/ setters # <<>> /\ Head(setters).op = "PruneMetadata"]_vars

\* C35: a call of PruneMetadataBefore(cutoff) deletes no metadata entry
\* whose filename is in the playlist and leaves those entries as they were;
\* every entry left outside the playlist was stored at or after cutoff; with
\* the zero cutoff none is left outside the playlist.
C35_PruneKeepsPlaylistAndRecent ==
    [][pruneCall' # <<>> =>
          LET cutoff == pruneCall'[1].cutoff
              inPlaylist == PlaylistFilenames(state.playlist)
          IN  /\ \A f \in (DOMAIN state.metadata) \cap inPlaylist :
                    /\ f \in DOMAIN state'.metadata
                    /\ state'.metadata[f] = state.metadata[f]
              /\ \A f \in (DOMAIN state'.metadata) \ inPlaylist :
                    /\ f \in DOMAIN metaAddedAt
                    /\ metaAddedAt[f] >= cutoff
              /\ cutoff = ZeroTime =>
                    (DOMAIN state'.metadata) \subseteq inPlaylist]_vars

\* a call with a cutoff later than every store has kept the old entry of the
\* playlist and deleted the other one
C35_Witness ==
    /\ pruneCall # <<>>
    /\ pruneCall[1].cutoff > ZeroTime
    /\ pruneCall[1].deleted # {}
    /\ \E f \in DOMAIN state.metadata :
          /\ f \in PlaylistFilenames(state.playlist)
          /\ metaAddedAt[f] < pruneCall[1].cutoff

\* C38: when PlayIndex(t) returns without error for a target that was an
\* index of the playlist when the call began, the entry that was at index t
\* then is the current one, whatever the player did between the call's
\* commands.
C38_PlayIndexPlaysTargetUnderRaces ==
    [][(/\ http.pc \in {"move", "play"}
        /\ http'.pc = "done"
        /\ http'.status = 200
        /\ ValidIndex(http.p0, http.target))
       => /\ ValidIndex(plist', ppos')
          /\ plist'[ppos' + 1] = http.p0[http.target + 1]]_vars

\* C39: once the player emits no more events, the lastSnap of every
\* registered subscriber that keeps reading its queue is, from some point
\* on, the current snapshot of the state.
C39_SubscribersConverge ==
    <>[](\A c \in Subs :
            Registered(c) => subs[c].lastSnap = Snapshot(state))

====
